---- MODULE Spec2Model ----
(***************************************************************************)
(* Model of the vulnerability synchronizer of final_db: the NVD base       *)
(* loader, the left join of the source tables onto the final table through *)
(* the CVE index, the watermark store and the segmented parallel scan; and *)
(* of the feed loaders that compare an extract with a stored baseline      *)
(* (cisa_db, metasploit_db) with the content hashes they compare by.       *)
(*                                                                         *)
(* Strings that the code inspects character by character (CVE identifiers) *)
(* are sequences of one-character strings.  Timestamps are integers: the   *)
(* epoch sentinel "1970-01-01T00:00:00Z" is 0 and iso_now() is the clock.  *)
(***************************************************************************)
EXTENDS Integers, Sequences, FiniteSets, TLC

\* ------------------------------------------------------------------------
\* Bounds of the model
\* ------------------------------------------------------------------------
\* Largest value of the clock (timestamps are 0..MaxTime).
MaxTime == 2

\* Number of segments of a parallel scan (total_segments).
NumSegments == 2

\* ------------------------------------------------------------------------
\* Values
\* ------------------------------------------------------------------------
\* The epoch sentinel returned by get_last_sync when nothing is stored.
EPOCH == 0

\* Python None as stored by DynamoDB (the NULL type).
NULL == "NULL"

\* An attribute that an item does not have.
ABSENT == "ABSENT"

\* An item without an uploaded_date attribute.
NoDate == -1

\* None or the empty string, as a sequence of characters.
None == << >>

\* A value that is not a string and is not falsy (a number, a list).
NotStr == <<"not a str">>

\* The call ended with an exception instead of a value.
Raised == <<"raised">>

Times == 1..MaxTime

Segments == 0..(NumSegments - 1)

\* ------------------------------------------------------------------------
\* Identifiers used by the tables of the model
\* ------------------------------------------------------------------------
K1 == "CVE-2021-0001"

K2 == "CVE-2021-0002"

\* The same identifier as K1 in another spelling.
K1Alt == "cve_2021_0001"

\* The same identifier as K2 in another spelling.
K2Alt == "cve 2021 0002"

\* Not an identifier.
BadId == "CVE-21-1"

\* The characters of the strings of the model ("" is also what `not value`
\* takes for None).
Chars ==
  (K1 :> <<"C","V","E","-","2","0","2","1","-","0","0","0","1">>) @@
  (K2 :> <<"C","V","E","-","2","0","2","1","-","0","0","0","2">>) @@
  (K1Alt :> <<"c","v","e","_","2","0","2","1","_","0","0","0","1">>) @@
  (K2Alt :> <<"c","v","e"," ","2","0","2","1"," ","0","0","0","2">>) @@
  (BadId :> <<"C","V","E","-","2","1","-","1">>) @@
  ("" :> << >>)

\* The string with the given characters.
Str(cs) == CHOOSE k \in DOMAIN Chars : Chars[k] = cs

\* ------------------------------------------------------------------------
\* utils/cve_utils.py
\* ------------------------------------------------------------------------
IsDigit(c) == c \in {"0","1","2","3","4","5","6","7","8","9"}

\* The separator class without the hyphen.
IsSep_no_hyphen(c) == c \in {"_", " "}

\* [-_\s]
IsSep(c) == c \in {"-", "_", " "}

IsSpace(c) == c = " "

\* Number of consecutive digits of s starting at position p.
RECURSIVE DigitRun(_, _)
DigitRun(s, p) ==
  IF p > Len(s) \/ ~IsDigit(s[p]) THEN 0 ELSE 1 + DigitRun(s, p + 1)

\* str.strip(): drop leading and trailing white space.
RECURSIVE Strip(_)
Strip(s) ==
  IF s = << >> THEN s
  ELSE IF IsSpace(s[1]) THEN Strip(Tail(s))
  ELSE IF IsSpace(s[Len(s)]) THEN Strip(SubSeq(s, 1, Len(s) - 1))
  ELSE s

\* str.zfill(w): left-pad with "0" to width w.
RECURSIVE ZFill(_, _)
ZFill(s, w) == IF Len(s) >= w THEN s ELSE ZFill(<<"0">> \o s, w)

\* Does "cve" (any case) start at position i of s?
CvePrefixAt(s, i) ==
  /\ i + 2 <= Len(s)
  /\ s[i] \in {"c", "C"}
  /\ s[i + 1] \in {"v", "V"}
  /\ s[i + 2] \in {"e", "E"}

\* Position after an optional separator at p.
SkipSep(s, p) == IF p <= Len(s) /\ IsSep(s[p]) THEN p + 1 ELSE p

\* Start of the year group of a match of
\* (?i)cve[-_\s]?(\d{4})[-_\s]?(\d{4,7}) beginning at i.
YearPos(s, i) == SkipSep(s, i + 3)

SeqPos(s, i) == SkipSep(s, YearPos(s, i) + 4)

SeqLen(s, i) ==
  LET n == DigitRun(s, SeqPos(s, i)) IN IF n > 7 THEN 7 ELSE n

MatchAt(s, i) ==
  /\ CvePrefixAt(s, i)
  /\ DigitRun(s, YearPos(s, i)) >= 4
  /\ SeqLen(s, i) >= 4

\* The pattern of normalize_cve found first in s, rewritten as
\* CVE-<year>-<sequence, zero-filled to 4 digits>; None when there is none.
FirstMatch(s) ==
  LET hits == {i \in 1..Len(s) : MatchAt(s, i)}
  IN IF hits = {} THEN None
     ELSE
       LET i == CHOOSE j \in hits : \A h \in hits : j <= h
           year == SubSeq(s, YearPos(s, i), YearPos(s, i) + 3)
           num == SubSeq(s, SeqPos(s, i), SeqPos(s, i) + SeqLen(s, i) - 1)
       IN <<"C","V","E","-">> \o year \o <<"-">> \o ZFill(num, 4)

\* normalize_cve with the guard "if not value" only: value.strip() raises on
\* a value that is not a string.
normalize_cve_unchecked(value) ==
  IF value = None THEN None
  ELSE IF value = NotStr THEN Raised
  ELSE FirstMatch(Strip(value))

\* "if not value or not isinstance(value, str): return None", then the
\* search in value.strip().
normalize_cve(value) ==
  IF value = None \/ value = NotStr THEN None
  ELSE FirstMatch(Strip(value))

\* Position after the match of cve_utils.CVE_PATTERN,
\* (?i)(CVE[-_\s]?\d{4}[-_\s]?\d{4,7}), that begins at i (the digits are
\* taken greedily).
MatchEnd(s, i) == SeqPos(s, i) + SeqLen(s, i)

\* CVE_PATTERN.findall(value) from position p on: the matches from left to
\* right, each search starting where the match before it ended.
RECURSIVE findall_from(_, _)
findall_from(s, p) ==
  IF p > Len(s) THEN << >>
  ELSE IF MatchAt(s, p)
    THEN <<SubSeq(s, p, MatchEnd(s, p) - 1)>> \o
           findall_from(s, MatchEnd(s, p))
    ELSE findall_from(s, p + 1)

findall(s) == findall_from(s, 1)

Range(q) == {q[k] : k \in DOMAIN q}

\* for m in matches: n = normalize_cve(m);
\*   if n and n not in normalized: normalized.append(n)
RECURSIVE append_new(_, _)
append_new(matches, normalized) ==
  IF matches = << >> THEN normalized
  ELSE LET n == normalize_cve(Head(matches))
       IN append_new(Tail(matches),
                     IF n # None /\ n \notin Range(normalized)
                       THEN Append(normalized, n) ELSE normalized)

\* extract_cves with the first match only.
extract_cves_first_match(value) ==
  IF value = None \/ value = NotStr THEN << >>
  ELSE LET matches == findall(value)
       IN IF matches = << >> THEN << >>
          ELSE append_new(<<Head(matches)>>, << >>)

\* "if not value or not isinstance(value, str): return []", then findall and
\* the loop.
extract_cves(value) ==
  IF value = None \/ value = NotStr THEN << >>
  ELSE append_new(findall(value), << >>)

\* config.py: CVE_PATTERN = ^CVE-\d{4}-\d{4,}$ (IGNORECASE), used with match().
CVE_PATTERN(s) ==
  /\ Len(s) >= 13
  /\ CvePrefixAt(s, 1)
  /\ s[4] = "-"
  /\ \A p \in 5..8 : IsDigit(s[p])
  /\ s[9] = "-"
  /\ \A p \in 10..Len(s) : IsDigit(s[p])

\* ------------------------------------------------------------------------
\* config.py: tables and the source registry
\* ------------------------------------------------------------------------
NVD_TABLE == "infoservices-cybersecurity-vuln-nvd-data"

CISA_TABLE == "infoservices-cybersecurity-cisa-data"

APT_TABLE == "infoservices-cybersecurity-vuln-static-APTfinal"

\* Each entry: (table_name, join_key, transform_fn, is_static); the transform
\* is selected by table_name in Transform below.
SOURCE_SPECS ==
  << [table_name |-> CISA_TABLE, join_key |-> "cveID", is_static |-> FALSE],
     [table_name |-> APT_TABLE, join_key |-> "CVE_Exploited", is_static |-> TRUE] >>

SourceTables == {SOURCE_SPECS[n].table_name : n \in DOMAIN SOURCE_SPECS}

IsStatic(t) == \E n \in DOMAIN SOURCE_SPECS :
  SOURCE_SPECS[n].table_name = t /\ SOURCE_SPECS[n].is_static

\* Key values that occur in the tables of the model.
NvdIds == {K1}

IndexIds == {K1Alt}

SourceKeys(t) == IF t = CISA_TABLE THEN {K1, K2} ELSE {K1Alt}

\* Values of the one payload field a record of each table carries
\* (NVD: weakness, CISA: product, APT: APT_Group); ABSENT = field missing.
SourceVals(t) ==
  IF t = NVD_TABLE THEN {"w"}
  ELSE IF t = CISA_TABLE THEN {"a"}
  ELSE {ABSENT, "g"}

\* normalize_cve tabulated on the strings of the model ("" for None).
Norm == [k \in DOMAIN Chars |-> Str(normalize_cve(Chars[k]))]

\* CVE_PATTERN.match tabulated on the strings of the model.
ValidId == {k \in DOMAIN Chars : CVE_PATTERN(Chars[k])}

\* Attributes of an item of the final table.
Attrs == {"cve_id", "uploaded_date", "weakness", "metrics_cvssmetricv31",
          "product", "apt_group"}

\* ------------------------------------------------------------------------
\* State
\* ------------------------------------------------------------------------
VARIABLES
  clock,      \* the wall clock read by iso_now()
  index,      \* CVE index table: the set of its items' cve_id values
  nvd,        \* NVD table: id -> [uploaded_date, val]
  src,        \* source tables: table name -> (join key -> [uploaded_date, val])
  final,      \* final table: cve_id -> item (a function on Attrs)
  meta,       \* sync-metadata table: source_table -> last_sync_time
  pc,         \* position of run_pipeline: "LoadBase", "Join", "Done", or
              \* "Aborted" when an exception ended it
  cur,        \* index into SOURCE_SPECS of the source joined next
  pass,       \* what the loader pass that has just finished did
  run,        \* calm: runs started since the last source change or fault
              \* (at most 2); wrote: the current run wrote to the final table
  arg,        \* the value handed to normalize_cve
  once,       \* normalize_cve(arg), once computed
  twice,      \* normalize_cve(normalize_cve(arg)), once computed
  recs,       \* two records handed to the content hash
  hashes,     \* their content hashes, once computed
  loader,     \* the feed loader of a hash-baseline run: "cisa", "metasploit"
  today,      \* the day of the current extract of the feed
  feed,       \* the transformed records of the current extract
  s3base,     \* the baseline object in S3: [exists, recs]
  btable,     \* the loader's DynamoDB table: hash key -> item
  bpass,      \* what the hash-baseline pass that has just finished did
  sync,       \* a call of get_last_sync or set_last_sync and its outcome
  batch,      \* a batch read: the helper, the keys still asked for, the
              \* items collected, the attempts made
  found,      \* a text handed to extract_cves and the list it returned
  seg,        \* one segment of a parallel scan: its pages, the page the
              \* paginator is at, the items collected, the retries made
  pool,       \* the thread pool of one join pass: the position of every
              \* process() call, the shared counters, the phase of the pass
  scan,       \* one call of parallel_scan: the worker of every segment, the
              \* futures collected, all_items
  lookup,     \* a text handed to both normalize_cve functions and the two
              \* results
  late        \* the records of the dynamic source written since its last
              \* completed pass, and those a pass skipped for want of a
              \* base item

\* The synchronizer of final_db.
pipeVars == <<clock, index, nvd, src, final, meta, pc, cur, pass, run>>

\* An application of normalize_cve.
normVars == <<arg, once, twice>>

\* An application of the content hash.
hashVars == <<recs, hashes>>

\* A feed loader with its baseline.
baseVars == <<loader, today, feed, s3base, btable, bpass>>

\* The helpers taken one at a time.
helperVars == <<sync, batch, found, seg, pool, scan, lookup, late>>

vars == <<pipeVars, normVars, hashVars, baseVars, helperVars>>

\* ------------------------------------------------------------------------
\* Python dicts as functions; the transforms
\* ------------------------------------------------------------------------
EmptyDict == [a \in {} |-> NULL]

\* dict without the keys in ks (dict.pop / "continue" in a loop over items).
Without(d, ks) == [a \in (DOMAIN d) \ ks |-> d[a]]

\* transformations/nvd_transform.py clean_and_rename: cve_id, the renamed
\* fields that are present, and the metrics columns (None when the record has
\* no metrics).
nvd_clean_and_rename(id, rec) ==
  LET base == ("cve_id" :> id) @@ ("metrics_cvssmetricv31" :> NULL)
  IN IF rec.val = ABSENT THEN base ELSE base @@ ("weakness" :> rec.val)

\* transformations/cisa_transform.py clean_and_rename: only the renamed fields
\* that are present; cve_id is not one of CISA_FINAL_COLUMNS and is dropped.
cisa_clean_and_rename(key, rec) ==
  IF rec.val = ABSENT THEN EmptyDict ELSE ("product" :> rec.val)

\* apt_clean_and_rename writing its group under a column name that the CISA
\* transform also writes (no apt_ prefix).
apt_clean_and_rename_unprefixed(key, rec) ==
  ("cve_id" :> key) @@
  ("product" :> IF rec.val = ABSENT THEN NULL ELSE rec.val)

\* transformations/static_data/apt_transform.py clean_and_rename: cve_id and
\* every column of APT_FINAL_COLUMNS, None where the record has no value.
apt_clean_and_rename(key, rec) ==
  ("cve_id" :> key) @@
  ("apt_group" :> IF rec.val = ABSENT THEN NULL ELSE rec.val)

Transform(t, key, rec) ==
  IF t = CISA_TABLE THEN cisa_clean_and_rename(key, rec)
  ELSE apt_clean_and_rename(key, rec)

\* ------------------------------------------------------------------------
\* The key-value store
\* ------------------------------------------------------------------------
\* An item with only its key attribute.
KeyOnly(k) ==
  [a \in Attrs |-> IF a = "cve_id" THEN k
                   ELSE IF a = "uploaded_date" THEN NoDate ELSE ABSENT]

\* put_item(Item=d): the item is replaced as a whole.
PutItem(tbl, d) ==
  LET k == d["cve_id"]
      item == [a \in Attrs |-> IF a \in DOMAIN d THEN d[a] ELSE KeyOnly(k)[a]]
  IN [x \in (DOMAIN tbl) \cup {k} |-> IF x = k THEN item ELSE tbl[x]]

\* update_item(Key={"cve_id": k}, UpdateExpression="SET ...") without a
\* condition expression: sets the named attributes, keeps the others, and
\* creates the item when the key does not exist.
UpdateItem(tbl, k, d) ==
  LET old == IF k \in DOMAIN tbl THEN tbl[k] ELSE KeyOnly(k)
      item == [a \in Attrs |-> IF a \in DOMAIN d THEN d[a] ELSE old[a]]
  IN [x \in (DOMAIN tbl) \cup {k} |-> IF x = k THEN item ELSE tbl[x]]

\* The store rejects an update whose SET names the key attribute.
UpdateRejected(d) == "cve_id" \in DOMAIN d

\* DynamoDB assigns every item to one segment of a parallel scan.
SegmentOf(k) ==
  IF Chars[k][Len(Chars[k])] = "1" THEN 0 ELSE 1 % NumSegments

\* utils/dynamo_helpers.py parallel_scan: the keys returned by a scan of the
\* items `keys` (those that pass the filter) when the workers of the segments
\* in `failed` stopped on an error after having read the items in `partial`.
parallel_scan(keys, failed, partial) ==
  {k \in keys : SegmentOf(k) \notin failed \/ k \in partial}

\* What a scan can return to its caller, over all outcomes of its segment
\* workers; ok records whether every worker completed (the caller does not
\* get it).
ScanOutcomes(keys) ==
  {[items |-> parallel_scan(keys, f, p), ok |-> (f = {})] :
     f \in SUBSET Segments, p \in SUBSET keys}

\* utils/dynamo_helpers.py get_last_sync: the stored time, the epoch when there
\* is no item or when the read raises ClientError.
get_last_sync(t, readOk) ==
  IF readOk /\ t \in DOMAIN meta THEN meta[t] ELSE EPOCH

\* put_item(Item={"source_table": t, "last_sync_time": ts}) on a metadata
\* table with the items m.
set_last_sync_to(m, t, ts) ==
  [x \in (DOMAIN m) \cup {t} |-> IF x = t THEN ts ELSE m[x]]

\* utils/dynamo_helpers.py set_last_sync: put_item on the metadata table.
set_last_sync(t, ts) == set_last_sync_to(meta, t, ts)

Max(S) == CHOOSE m \in S : \A x \in S : x <= m

\* ------------------------------------------------------------------------
\* Initial state: empty tables, any content of the CVE index
\* ------------------------------------------------------------------------
\* kind: "none", "nvd" or "join"; table: the table the pass read; scanned: the
\* keys of the records its scan returned; scanOk: every segment worker of
\* that scan completed; tried: the records for which process() reached
\* update_item; updFailed: those whose update_item raised; raised: the pass
\* ended with an exception instead of returning; updated, skipped: the two
\* counters of the pass as its closing log line reports them; readOk: the
\* get_item of get_last_sync succeeded; abandoned: the process exited during
\* the pass.
NoPass ==
  [kind |-> "none", table |-> NVD_TABLE, scanned |-> {}, scanOk |-> TRUE,
   tried |-> {}, updFailed |-> {}, raised |-> FALSE,
   updated |-> 0, skipped |-> 0, readOk |-> TRUE, abandoned |-> FALSE]

\* The synchronizer before its first run.
PipeInit ==
  /\ clock = 1
  /\ index = IndexIds
  /\ nvd = EmptyDict
  /\ src = [t \in SourceTables |-> EmptyDict]
  /\ final = EmptyDict
  /\ meta = EmptyDict
  /\ pc = "LoadBase"
  /\ cur = 1
  /\ pass = NoPass
  /\ run = [calm |-> 1, wrote |-> FALSE]

\* Not yet computed.
Unset == <<"unset">>

\* No application of normalize_cve is under way.
NormIdle ==
  /\ arg = None
  /\ once = Unset
  /\ twice = Unset

\* No application of the content hash is under way.
HashIdle ==
  /\ recs = << >>
  /\ hashes = << >>

\* No extract of a feed and nothing stored for it.
StoresIdle ==
  /\ today = "none"
  /\ feed = << >>
  /\ s3base = << >>
  /\ btable = << >>
  /\ bpass = << >>

\* No feed loader is running.
BaseIdle ==
  /\ loader = "none"
  /\ StoresIdle

\* No helper is being looked at on its own.
HelperIdle ==
  /\ sync = << >>
  /\ batch = << >>
  /\ found = << >>
  /\ seg = << >>
  /\ pool = << >>
  /\ scan = << >>
  /\ lookup = << >>
  /\ late = << >>

Init ==
  /\ PipeInit
  /\ NormIdle
  /\ HashIdle
  /\ BaseIdle
  /\ HelperIdle

\* ------------------------------------------------------------------------
\* The environment: time passes, the feeds write to the NVD and source tables
\* ------------------------------------------------------------------------
\* A source table changed or a store call failed: the runs are no longer
\* "in succession with nothing changed".
Disturbed == [calm |-> 0, wrote |-> FALSE]

\* The run flags after a pass: faulty = a store call of the pass failed,
\* written = the pass wrote to the final table.
AfterPass(faulty, written) ==
  IF faulty THEN Disturbed
  ELSE [run EXCEPT !.wrote = @ \/ (run.calm = 2 /\ written)]

\* utils/time_utils.py iso_now(): the clock advances.
ClockAdvances ==
  /\ clock < MaxTime
  /\ clock' = clock + 1
  /\ pass' = NoPass
  /\ UNCHANGED <<index, nvd, src, final, meta, pc, cur, run,
                 normVars, hashVars, baseVars>>

Tick == ClockAdvances /\ UNCHANGED helperVars

\* A feed puts a new or modified record into the NVD table; its
\* uploaded_date is the time of the upload.
UploadNvd ==
  \E id \in NvdIds, v \in SourceVals(NVD_TABLE) :
    /\ nvd' = [x \in (DOMAIN nvd) \cup {id} |->
                 IF x = id THEN [uploaded_date |-> clock, val |-> v]
                 ELSE nvd[x]]
    /\ nvd' # nvd
    /\ run' = Disturbed
    /\ pass' = NoPass
    /\ UNCHANGED <<clock, index, src, final, meta, pc, cur,
                   normVars, hashVars, baseVars, helperVars>>

\* A feed puts a new or modified record into a source table; records of a
\* dynamic source carry the time of the upload, records of a static source
\* have no uploaded_date.
UploadTo(t, k, v) ==
  LET rec == [uploaded_date |-> IF IsStatic(t) THEN NoDate ELSE clock,
              val |-> v]
      tbl == [x \in (DOMAIN src[t]) \cup {k} |->
                IF x = k THEN rec ELSE src[t][x]]
  IN /\ tbl # src[t]
     /\ src' = [src EXCEPT ![t] = tbl]
     /\ run' = Disturbed
     /\ pass' = NoPass
     /\ UNCHANGED <<clock, index, nvd, final, meta, pc, cur,
                    normVars, hashVars, baseVars>>

UploadSource ==
  \E t \in SourceTables :
    \E k \in SourceKeys(t), v \in SourceVals(t) :
      UploadTo(t, k, v) /\ UNCHANGED helperVars

\* ------------------------------------------------------------------------
\* loaders/nvd_loader.py
\* ------------------------------------------------------------------------
\* The item load_nvd_base writes for NVD record id: the transform's output
\* with cve_id defaulted to the record's id and uploaded_date to iso_now().
NvdItem(id) ==
  nvd_clean_and_rename(id, nvd[id]) @@ ("uploaded_date" :> clock)

\* The batch writer's puts, one per record.
RECURSIVE PutAll(_, _)
PutAll(tbl, ids) ==
  IF ids = {} THEN tbl
  ELSE LET id == CHOOSE x \in ids : TRUE
       IN PutAll(PutItem(tbl, NvdItem(id)), ids \ {id})

\* max_date after the loop of load_nvd_base: every written record carries
\* uploaded_date = iso_now().
NvdMaxDate(last_sync, written) ==
  IF written # {} /\ clock > last_sync THEN clock ELSE last_sync

\* The puts of the batch writer and of set_last_sync are taken to succeed.
NvdBaseLoaded ==
  /\ pc = "LoadBase"
  /\ \E readOk \in BOOLEAN :
       LET last_sync == get_last_sync(NVD_TABLE, readOk)
           matching == {id \in DOMAIN nvd : nvd[id].uploaded_date > last_sync}
       IN \E o \in ScanOutcomes(matching) :
            LET new_items == o.items
                written == new_items \cap ValidId
            IN /\ final' = PutAll(final, written)
               /\ meta' = IF new_items = {} THEN meta
                          ELSE set_last_sync(NVD_TABLE,
                                             NvdMaxDate(last_sync, written))
               /\ pass' = [NoPass EXCEPT !.kind = "nvd"]
               /\ run' = AfterPass(~readOk \/ ~o.ok, written # {})
  /\ pc' = "Join"
  /\ cur' = 1
  /\ UNCHANGED <<clock, index, nvd, src, normVars, hashVars, baseVars>>

load_nvd_base == NvdBaseLoaded /\ UNCHANGED helperVars

\* ------------------------------------------------------------------------
\* loaders/left_join_loader.py
\* ------------------------------------------------------------------------
\* The SET loop without its "if k == 'cve_id': continue".
UpdateFields_with_id(transformed) == transformed

\* The loop that builds the SET expression: every entry of the transformed
\* record except cve_id.
UpdateFields(transformed) == Without(transformed, {"cve_id"})

\* The attributes process(rec) puts in its update request for the record
\* stored under `key` of source table t (uploaded_date is popped first).
UpdateRequest(t, key) ==
  UpdateFields(Without(Transform(t, key, src[t][key]), {"uploaded_date"}))

\* process(rec) reaches update_item: the key normalizes to a member of
\* cve_set, the transform returned something and the SET list is not empty.
Joinable(t, key, cve_set) ==
  /\ Norm[key] # ""
  /\ Norm[key] \in cve_set
  /\ Transform(t, key, src[t][key]) # EmptyDict
  /\ UpdateRequest(t, key) # EmptyDict

\* All orders in which the worker pool can apply the updates of the records S.
Orders(S) ==
  {o \in [1..Cardinality(S) -> S] :
     \A i, j \in 1..Cardinality(S) : i # j => o[i] # o[j]}

\* The successful update_item calls of a pass, in the order they take effect.
RECURSIVE ApplyUpdates(_, _, _)
ApplyUpdates(tbl, t, order) ==
  IF order = << >> THEN tbl
  ELSE ApplyUpdates(
         UpdateItem(tbl, Norm[Head(order)],
                    UpdateRequest(t, Head(order))),
         t, Tail(order))

\* Step 4 taking the earliest instead of the latest marker.
MinUploaded(t, items) ==
  CHOOSE m \in {src[t][k].uploaded_date : k \in items} :
    \A k \in items : m <= src[t][k].uploaded_date

\* Step 4: max(uploaded_date) of the scanned items, default=None.
MaxUploaded(t, items) ==
  IF items = {} THEN NoDate
  ELSE Max({src[t][k].uploaded_date : k \in items})

\* A pass that stores a marker for every dynamic source, whatever it scanned.
StoresMarker_any(is_static, items, max_uploaded) == ~is_static

\* The pass reaches set_last_sync: the scan returned items ("if not items:
\* return"), the source is not static and max_uploaded is truthy.
StoresMarker(is_static, items, max_uploaded) ==
  items # {} /\ ~is_static /\ max_uploaded # NoDate

\* Step 1: the CVE set a pass can load, over the outcomes of the scan of
\* the CVE index table.
CveSets ==
  {[cve_set |-> {Norm[i] : i \in io.items}, ok |-> io.ok] :
     io \in ScanOutcomes(index)}

\* The records a scan of source table t matches: all of them for a static
\* source, those with uploaded_date > last_sync otherwise.
Matching(t, is_static, last_sync) ==
  IF is_static THEN DOMAIN src[t]
  ELSE {k \in DOMAIN src[t] : src[t][k].uploaded_date > last_sync}

\* Steps 1 and 2 of a pass over source table t: the scanned items and the
\* records for which process() reaches update_item, over the outcomes of the
\* metadata read, of the scan of the source and of the load of the CVE set
\* (faulty: one of these calls failed).
ScanCases(t, is_static) ==
  UNION {
    UNION {
      {[items |-> so.items, scanOk |-> so.ok, readOk |-> readOk,
        tried |-> {k \in so.items : Joinable(t, k, c.cve_set)},
        faulty |-> ~readOk \/ ~so.ok \/ ~c.ok] : c \in CveSets} :
      so \in ScanOutcomes(Matching(t, is_static, get_last_sync(t, readOk)))} :
    readOk \in BOOLEAN}

\* Steps 3 and 4 of the pass for one of these cases: the states of the final
\* table, the metadata table, the pass and the run flags that it can leave,
\* over the update_item calls that fail, the order of the others and the
\* outcome of the put_item of set_last_sync (writeOk), whose exception nothing
\* catches.
PassResults(t, is_static, s) ==
  LET rejected == {k \in s.tried : UpdateRejected(UpdateRequest(t, k))}
      writes == StoresMarker(is_static, s.items, MaxUploaded(t, s.items))
  IN UNION {
       UNION {
         {[final |-> ApplyUpdates(final, t, order),
           meta |-> IF writes /\ writeOk
                    THEN set_last_sync(t, MaxUploaded(t, s.items))
                    ELSE meta,
           pass |-> [kind |-> "join", table |-> t,
                     scanned |-> s.items, scanOk |-> s.scanOk,
                     tried |-> s.tried, updFailed |-> failed,
                     raised |-> writes /\ ~writeOk,
                     updated |-> Cardinality(s.tried \ failed),
                     skipped |-> Cardinality(s.items \ s.tried),
                     readOk |-> s.readOk, abandoned |-> FALSE],
           run |-> AfterPass(s.faulty \/ failed # {} \/ (writes /\ ~writeOk),
                             s.tried # failed)] :
            order \in Orders(s.tried \ failed)} :
         failed \in {f \in SUBSET s.tried : rejected \subseteq f}} :
       writeOk \in BOOLEAN}

\* Every result of a pass over source table t.
PassOutcomes(t, is_static) ==
  UNION {PassResults(t, is_static, s) : s \in ScanCases(t, is_static)}

\* The pass ends with the result o: run_pipeline goes on to the next entry
\* of SOURCE_SPECS, or ends with the exception of the pass.
PassEnds(o) ==
  /\ final' = o.final
  /\ meta' = o.meta
  /\ pass' = o.pass
  /\ run' = o.run
  /\ IF o.pass.raised
     THEN /\ cur' = 1
          /\ pc' = "Aborted"
     ELSE IF cur < Len(SOURCE_SPECS)
     THEN /\ cur' = cur + 1
          /\ pc' = "Join"
     ELSE /\ cur' = 1
          /\ pc' = "Done"
  /\ UNCHANGED <<clock, index, nvd, src, normVars, hashVars, baseVars>>

left_join_source_from_cveindex ==
  /\ pc = "Join"
  /\ \E o \in PassOutcomes(SOURCE_SPECS[cur].table_name,
                           SOURCE_SPECS[cur].is_static) : PassEnds(o)
  /\ UNCHANGED helperVars

\* ------------------------------------------------------------------------
\* main.py
\* ------------------------------------------------------------------------
\* run_pipeline is started again after it has finished or was ended by an
\* exception.
RunStarts ==
  /\ pc \in {"Done", "Aborted"}
  /\ pc' = "LoadBase"
  /\ run' = [calm |-> IF run.calm < 2 THEN run.calm + 1 ELSE 2,
             wrote |-> FALSE]
  /\ pass' = NoPass
  /\ UNCHANGED <<clock, index, nvd, src, final, meta, cur,
                 normVars, hashVars, baseVars>>

StartRun == RunStarts /\ UNCHANGED helperVars

\* run_pipeline: Phase A (load_nvd_base), then Phase C, one
\* left_join_source_from_cveindex per entry of SOURCE_SPECS.  Phase B
\* (get_all_cve_ids) only logs the size of the set it reads.  No call is
\* inside a try: an exception of a loader ends run_pipeline.
run_pipeline ==
  \/ load_nvd_base
  \/ left_join_source_from_cveindex

Next ==
  \/ Tick
  \/ UploadNvd
  \/ UploadSource
  \/ run_pipeline
  \/ StartRun

Spec == Init /\ [][Next]_vars

\* ------------------------------------------------------------------------
\* normalize_cve applied to a text and to its own result
\* ------------------------------------------------------------------------
\* The parts the texts are made of: white space around, text before, the
\* prefix, a separator or another character or nothing, the year, the same
\* again, the sequence number, text after.
Pads == {<< >>, <<" ">>}

Heads == {<< >>, <<"x">>}

Prefixes == {<<"C","V","E">>, <<"c","v","e">>}

Seps == {<< >>, <<"-">>, <<"_">>, <<" ">>, <<":">>}

Years == {<<"2","0","2","1">>, <<"2","1">>}

Seqs == {<<"1">>, <<"0","0","0","1">>, <<"1","2","3","4","5","6","7","8">>}

Tails == {<< >>, <<"x">>}

Compose(pad, head, prefix, sep1, year, sep2, num, tail) ==
  pad \o head \o prefix \o sep1 \o year \o sep2 \o num \o tail \o pad

Texts ==
  {Compose(pad, head, prefix, sep1, year, sep2, num, tail) :
     pad \in Pads, head \in Heads, prefix \in Prefixes, sep1 \in Seps,
     year \in Years, sep2 \in Seps, num \in Seqs, tail \in Tails}

\* What a caller can hand to normalize_cve.
Inputs == Texts \cup {None, NotStr, <<"x">>}

InitNorm ==
  /\ PipeInit
  /\ HashIdle
  /\ BaseIdle
  /\ HelperIdle
  /\ arg \in Inputs
  /\ once = Unset
  /\ twice = Unset

\* cve = normalize_cve(arg)
Normalize ==
  /\ once = Unset
  /\ once' = normalize_cve(arg)
  /\ UNCHANGED <<arg, twice, pipeVars, hashVars, baseVars, helperVars>>

\* normalize_cve(cve), unless the first call raised.
Renormalize ==
  /\ once \notin {Unset, Raised}
  /\ twice = Unset
  /\ twice' = normalize_cve(once)
  /\ UNCHANGED <<arg, once, pipeVars, hashVars, baseVars, helperVars>>

NextNorm ==
  \/ Normalize
  \/ Renormalize

SpecNorm == InitNorm /\ [][NextNorm]_vars

\* ------------------------------------------------------------------------
\* Records of the feed loaders and their content hashes
\* (metasploit_db/load.py, epss_db/load.py)
\* ------------------------------------------------------------------------
\* A record is a Python dict in insertion order: a sequence of
\* <<field, value>> pairs; values are sequences of characters.
Fields(rec) == {rec[i][1] : i \in DOMAIN rec}

\* rec.get(f, default)
Get(rec, f, default) ==
  IF f \in Fields(rec)
  THEN rec[CHOOSE i \in DOMAIN rec : rec[i][1] = f][2]
  ELSE default

\* The dict as a mapping, which is what == on dicts compares.
AsMap(rec) == [f \in Fields(rec) |-> Get(rec, f, None)]

\* sorted() on the field names of the model.
SortedNames ==
  <<"cve", "cveID", "date_updated", "description", "epss", "fullname",
    "module_key", "percentile", "product", "uploaded_date", "vendorProject">>

Sorted(names) ==
  LET Member(f) == f \in names IN SelectSeq(SortedNames, Member)

\* re.sub(r"\s+", " ", s)
RECURSIVE Collapse(_)
Collapse(s) ==
  IF s = << >> THEN s
  ELSE IF Len(s) > 1 /\ IsSpace(s[1]) /\ IsSpace(s[2]) THEN Collapse(Tail(s))
  ELSE <<s[1]>> \o Collapse(Tail(s))

\* metasploit_db/load.py _clean_for_hash
clean_for_hash(v) == Strip(Collapse(v))

\* "|".join(parts)
RECURSIVE JoinBar(_)
JoinBar(parts) ==
  IF parts = << >> THEN << >>
  ELSE IF Len(parts) = 1 THEN parts[1]
  ELSE parts[1] \o <<"|">> \o JoinBar(Tail(parts))

\* metasploit_db/load.py: the fields the loader leaves out of the hash.
volatile == {"id", "module_id", "uploaded_date", "cve_id", "content_hash"}

\* canonical_fields: the sorted field names of the first record that are not
\* volatile; empty when there are no records.
canonical_fields(records) ==
  IF records = << >> THEN << >>
  ELSE Sorted(Fields(records[1]) \ volatile)

\* metasploit_db/load.py _compute_content_hash_for_record.  SHA-256 is taken
\* to be free of collisions: the hash is the string that is digested.
compute_content_hash_for_record(rec, canonical) ==
  JoinBar([i \in DOMAIN canonical |->
             clean_for_hash(Get(rec, canonical[i], << >>))])

\* epss_db/load.py
VOLATILE_FIELDS == {"date_updated"}

\* epss_db/load.py _serialize_canonical for a flat record: the JSON object
\* of the fields outside VOLATILE_FIELDS with its keys sorted, as the
\* sequence of its members (JSON quoting keeps members and strings apart).
serialize_canonical(rec) ==
  LET names == Sorted(Fields(rec) \ VOLATILE_FIELDS)
  IN [i \in DOMAIN names |-> <<names[i], Get(rec, names[i], None)>>]

\* The record with its fields in the opposite order.
Reversed(rec) == [i \in DOMAIN rec |-> rec[Len(rec) + 1 - i]]

\* ------------------------------------------------------------------------
\* The content hash applied to two records of one feed
\* ------------------------------------------------------------------------
\* The fields of a record of each feed: key, two content fields, the date
\* the loader treats as volatile.
FeedFields(kind) ==
  IF kind = "metasploit"
  THEN <<"module_key", "description", "fullname", "uploaded_date">>
  ELSE IF kind = "cisa"
  THEN <<"cveID", "vendorProject", "product", "uploaded_date">>
  ELSE <<"cve", "epss", "percentile", "date_updated">>

\* The field names that a pass of each feed leaves out of the comparison.
Excluded(kind) ==
  IF kind = "metasploit" THEN volatile
  ELSE IF kind = "cisa" THEN {}
  ELSE VOLATILE_FIELDS

HashKeys == {<<"k","1">>}

HashTexts1 == {<<"a">>, <<"a","|","b">>, <<"a"," ">>}

HashTexts2 == {<<"c">>, <<"b","|","c">>}

HashDates == {<<"d","1">>, <<"d","2">>}

MakeRecord(kind, k, v1, v2, d) ==
  LET f == FeedFields(kind)
  IN << <<f[1], k>>, <<f[2], v1>>, <<f[3], v2>>, <<f[4], d>> >>

HashRecords(kind) ==
  LET plain == {MakeRecord(kind, k, v1, v2, d) :
                  k \in HashKeys, v1 \in HashTexts1, v2 \in HashTexts2,
                  d \in HashDates}
  IN plain \cup {Reversed(r) : r \in plain}

InitHash ==
  /\ PipeInit
  /\ NormIdle
  /\ StoresIdle
  /\ HelperIdle
  /\ \E kind \in {"metasploit", "epss"} :
       /\ loader = kind
       /\ recs \in HashRecords(kind) \X HashRecords(kind)
  /\ hashes = << >>

\* The hashes the Metasploit loader compares: canonical_fields comes from the
\* first record of the list.
HashMetasploit ==
  /\ loader = "metasploit"
  /\ hashes = << >>
  /\ hashes' = [i \in DOMAIN recs |->
                  compute_content_hash_for_record(recs[i],
                                                  canonical_fields(recs))]
  /\ UNCHANGED <<recs, pipeVars, normVars, loader, today, feed, s3base,
                 btable, bpass, helperVars>>

\* The serializations the EPSS loader compares.
HashEpss ==
  /\ loader = "epss"
  /\ hashes = << >>
  /\ hashes' = [i \in DOMAIN recs |-> serialize_canonical(recs[i])]
  /\ UNCHANGED <<recs, pipeVars, normVars, loader, today, feed, s3base,
                 btable, bpass, helperVars>>

NextHash ==
  \/ HashMetasploit
  \/ HashEpss

SpecHash == InitHash /\ [][NextHash]_vars

\* ------------------------------------------------------------------------
\* The feed loaders with a baseline: cisa_db/load.py, metasploit_db/load.py
\* ------------------------------------------------------------------------
\* Largest sequence number of a generated Metasploit id (META-<year>-<n>).
MaxId == 2

\* The days on which extracts are taken, in order.
Days == << <<"d","1">>, <<"d","2">> >>

\* Keys of the records of a feed: two cveID values, one module_key.
FeedKeys(kind) ==
  IF kind = "cisa" THEN {<<"k","1">>, <<"k","2">>} ELSE {<<"k","1">>}

\* The records an extract can hold for key k on day d: two contents in two
\* field orders for the first key, one record for the other.
FeedRecords(kind, k, d) ==
  IF k = <<"k","1">>
  THEN LET plain == {MakeRecord(kind, k, <<"a","|","b">>, <<"c">>, d),
                     MakeRecord(kind, k, <<"a">>, <<"b","|","c">>, d)}
       IN plain \cup {Reversed(r) : r \in plain}
  ELSE {MakeRecord(kind, k, <<"a">>, <<"c">>, d)}

\* The extracts of day d: key -> record, every record stamped with the day
\* (cisa_db/transform.py sets uploaded_date to the day of the run).
Extracts(kind, d) ==
  UNION {{f \in [ks -> UNION {FeedRecords(kind, k, d) : k \in ks}] :
            \A k \in ks : f[k] \in FeedRecords(kind, k, d)} :
         ks \in SUBSET FeedKeys(kind)}

\* kind: "none" or "sync"; raised: the pass ended with an exception;
\* loaded: the previous baseline was read; changed: the keys of to_write;
\* lost: the keys of to_write whose put did not reach the table.
NoSync ==
  [kind |-> "none", raised |-> FALSE, loaded |-> FALSE, changed |-> {},
   lost |-> {}]

InitBaseline ==
  /\ PipeInit
  /\ NormIdle
  /\ HashIdle
  /\ HelperIdle
  /\ loader \in {"cisa", "metasploit"}
  /\ today = 1
  /\ feed = EmptyDict
  /\ s3base = [exists |-> FALSE, recs |-> EmptyDict]
  /\ btable = EmptyDict
  /\ bpass = NoSync

\* The feed is downloaded and transformed, on the same or on a later day.
Extract ==
  /\ \E d \in DOMAIN Days :
       /\ d >= today
       /\ today' = d
       /\ feed' \in Extracts(loader, Days[d])
  /\ bpass' = NoSync
  /\ UNCHANGED <<loader, s3base, btable, pipeVars, normVars, hashVars, helperVars>>

\* dict.update / a loop of assignments: d with the entries of e on top.
Overlay(d, e) ==
  [k \in (DOMAIN d) \cup (DOMAIN e) |-> IF k \in DOMAIN e THEN e[k] ELSE d[k]]

\* cisa_db/load.py _to_ddb_safe on a string: stripped, None when empty.
to_ddb_safe(v) == IF Strip(v) = << >> THEN NULL ELSE Strip(v)

\* The state a CISA pass leaves when _s3_get_text_if_exists returned (the text
\* or None for a missing object): to_write is every record that differs from
\* its baseline entry as a dict, each is put into the table, and the merged
\* baseline is uploaded; putOk is the outcome of that upload, whose
\* exception nothing catches.  lost are the records of to_write that a
\* failed flush of the batch writer did not write: its exception is not
\* caught either and ends the pass before the upload.
CisaResult(putOk, lost) ==
  LET baseline_map == IF s3base.exists THEN s3base.recs ELSE EmptyDict
      current_map == [k \in DOMAIN feed |-> AsMap(feed[k])]
      to_write == {k \in DOMAIN current_map :
                     k \notin DOMAIN baseline_map
                     \/ baseline_map[k] # current_map[k]}
      safe == [k \in to_write |->
                 [f \in DOMAIN current_map[k] |->
                    to_ddb_safe(current_map[k][f])]]
      merged == Overlay(baseline_map, current_map)
  IN [to_write |-> to_write,
      btable |-> Overlay(btable, [k \in to_write \ lost |-> safe[k]]),
      s3base |-> IF putOk /\ lost = {}
                   THEN [exists |-> TRUE, recs |-> merged] ELSE s3base,
      bpass |-> [kind |-> "sync", raised |-> (~putOk \/ lost # {}),
                 loaded |-> TRUE, changed |-> to_write, lost |-> lost]]

\* sync_cisa_records_to_dynamodb_and_s3.  A read error of the baseline other
\* than "no such key" is raised again and ends the pass before anything is
\* written.  The object that is read back is one that a pass has written,
\* so that its text parses.
sync_cisa_records_to_dynamodb_and_s3 ==
  /\ loader = "cisa"
  /\ bpass.kind = "none"
  /\ \E getOk, putOk \in BOOLEAN :
       IF getOk
       THEN \E lost \in SUBSET CisaResult(putOk, {}).to_write :
              LET r == CisaResult(putOk, lost)
              IN /\ btable' = r.btable
                 /\ s3base' = r.s3base
                 /\ bpass' = r.bpass
       ELSE /\ bpass' = [kind |-> "sync", raised |-> TRUE, loaded |-> FALSE,
                         changed |-> {}, lost |-> {}]
            /\ UNCHANGED <<btable, s3base>>
  /\ UNCHANGED <<loader, today, feed, pipeVars, normVars, hashVars, helperVars>>

\* metasploit_db/load.py _normalize_for_ddb on a string that is not a number:
\* stripped, None when empty.
normalize_for_ddb(v) == IF Strip(v) = << >> THEN None ELSE Strip(v)

\* _next_meta_id_for_year: one more than the largest sequence number among
\* the existing ids (all ids of the model are of one year).
next_meta_id_for_year(existing_ids) ==
  IF existing_ids = {} THEN 1 ELSE Max(existing_ids) + 1

\* The loop that prepares to_write: the ids of the changed keys in `order`,
\* the baseline's id where it has one, a newly generated one otherwise.
RECURSIVE AssignIds(_, _, _)
AssignIds(order, baseline_map, existing_ids) ==
  IF order = << >> THEN EmptyDict
  ELSE LET mk == Head(order)
           gen_id == IF mk \in DOMAIN baseline_map THEN baseline_map[mk].id
                     ELSE next_meta_id_for_year(existing_ids)
       IN (mk :> gen_id) @@
          AssignIds(Tail(order), baseline_map, existing_ids \cup {gen_id})

\* The hash of a scanned item: of the dict of its canonical fields, None for
\* a field it does not have.
ItemHash(item, canonical) ==
  compute_content_hash_for_record(
    [i \in DOMAIN canonical |->
       <<canonical[i],
         IF canonical[i] \in DOMAIN item THEN item[canonical[i]] ELSE None>>],
    canonical)

\* The module keys of the items of the table.
ModuleKeys == {btable[i].module_key : i \in DOMAIN btable}

\* What the scan of the table can leave in baseline_map and
\* existing_generated_ids: for each module key the item scanned last, with
\* every id, when the scan completes; an empty baseline_map with the ids
\* seen so far when it raises.
Baselines ==
  {[map |-> [mk \in ModuleKeys |-> btable[pick[mk]]], ids |-> DOMAIN btable,
    ok |-> TRUE] :
     pick \in {p \in [ModuleKeys -> DOMAIN btable] :
                 \A mk \in ModuleKeys : btable[p[mk]].module_key = mk}}
  \cup {[map |-> EmptyDict, ids |-> seen, ok |-> FALSE] :
          seen \in SUBSET DOMAIN btable}

\* The state a Metasploit pass leaves for one outcome b of the scan, one
\* order of the records of the extract and one outcome of the upload of the
\* merged baseline (whose exception is caught).  lost are the ids of to_write
\* that did not reach the table: _write_chunk catches the exception of a
\* batch.put_item call (raised by the flush of the buffer that the call sets
\* off), logs it and goes on; flushOk is the outcome of the flush at the end
\* of the with block, whose exception is not caught and ends the pass.
MetasploitResult(b, order, putOk, lost, flushOk) ==
  LET canonical == IF order = << >> THEN << >>
                   ELSE Sorted(Fields(feed[order[1]]) \ volatile)
      baseline_hashes == [mk \in DOMAIN b.map |-> ItemHash(b.map[mk], canonical)]
      current_hashes ==
        [mk \in DOMAIN feed |->
           compute_content_hash_for_record(feed[mk], canonical)]
      changed == {mk \in DOMAIN feed :
                    mk \notin DOMAIN baseline_hashes
                    \/ baseline_hashes[mk] # current_hashes[mk]}
      changed_keys == SelectSeq(order, LAMBDA mk : mk \in changed)
      ids == AssignIds(changed_keys, b.map, b.ids)
      items == [n \in {ids[mk] : mk \in changed} |->
                  LET mk == CHOOSE x \in changed : ids[x] = n
                      rec == AsMap(feed[mk])
                  IN [id |-> n, module_key |-> mk, module_id |-> mk,
                      cve_id |-> None, content_hash |-> current_hashes[mk]] @@
                     [f \in DOMAIN rec |-> normalize_for_ddb(rec[f])]]
      entries == [mk \in DOMAIN feed |->
                    (IF mk \in DOMAIN b.map THEN [id |-> b.map[mk].id]
                     ELSE EmptyDict) @@
                    [module_key |-> mk, cve_id |-> None,
                     content_hash |-> current_hashes[mk]] @@
                    AsMap(feed[mk])]
      merged == Overlay(b.map, entries)
  IN [ids |-> {ids[mk] : mk \in changed},
      btable |-> Overlay(btable, [n \in (DOMAIN items) \ lost |-> items[n]]),
      s3base |-> IF putOk /\ flushOk
                   THEN [exists |-> TRUE, recs |-> merged] ELSE s3base,
      bpass |-> [kind |-> "sync", raised |-> ~flushOk, loaded |-> b.ok,
                 changed |-> changed,
                 lost |-> {mk \in changed : ids[mk] \in lost}]]

\* sync_records_to_dynamodb_and_store_baseline.
sync_records_to_dynamodb_and_store_baseline ==
  /\ loader = "metasploit"
  /\ bpass.kind = "none"
  /\ \E b \in Baselines, order \in Orders(DOMAIN feed), putOk \in BOOLEAN :
       \E lost \in SUBSET MetasploitResult(b, order, putOk, {}, TRUE).ids :
         \E flushOk \in {TRUE, lost = {}} :
           LET r == MetasploitResult(b, order, putOk, lost, flushOk)
           IN /\ \A n \in r.ids : n <= MaxId
              /\ btable' = r.btable
              /\ s3base' = r.s3base
              /\ bpass' = r.bpass
  /\ UNCHANGED <<loader, today, feed, pipeVars, normVars, hashVars, helperVars>>

NextBaseline ==
  \/ Extract
  \/ sync_cisa_records_to_dynamodb_and_s3
  \/ sync_records_to_dynamodb_and_store_baseline

SpecBaseline == InitBaseline /\ [][NextBaseline]_vars

\* ------------------------------------------------------------------------
\* One Phase C over source tables that also hold records without a usable
\* key, next to a call of normalize_cve with a value that holds no identifier
\* ------------------------------------------------------------------------
\* None or "", a value that is not a string, text without the pattern.
AbsentInputs == {None, NotStr, <<"x">>, Chars[BadId]}

\* The CVE index of these runs; one of its items has an unusable cve_id.
PassIndexIds == {K1Alt, K2Alt, BadId}

\* The join keys of the records of source table t in these runs.
PassKeys(t) == IF t = CISA_TABLE THEN {K1, K2, BadId} ELSE {K1Alt, BadId}

InitPass ==
  /\ clock = 1
  /\ index = PassIndexIds
  /\ nvd = EmptyDict
  /\ \E v \in SourceVals(APT_TABLE) :
       src = [t \in SourceTables |->
                [k \in PassKeys(t) |->
                   IF IsStatic(t) THEN [uploaded_date |-> NoDate, val |-> v]
                   ELSE [uploaded_date |-> clock,
                         val |-> CHOOSE x \in SourceVals(t) : TRUE]]]
  /\ final = EmptyDict
  /\ meta \in {EmptyDict, set_last_sync_to(EmptyDict, CISA_TABLE, clock)}
  /\ pc = "Join"
  /\ cur = 1
  /\ pass = NoPass
  /\ run = [calm |-> 1, wrote |-> FALSE]
  /\ arg \in AbsentInputs
  /\ once = Unset
  /\ twice = Unset
  /\ HashIdle
  /\ BaseIdle
  /\ HelperIdle

\* The process exits during a pass, before Step 4: the scan has returned
\* some outcome, any of the update_item calls have taken effect, and the
\* watermark is not written.
ProcessExit ==
  /\ pc = "Join"
  /\ LET t == SOURCE_SPECS[cur].table_name
         is_static == SOURCE_SPECS[cur].is_static
     IN \E s \in ScanCases(t, is_static) :
          \E applied \in SUBSET s.tried :
            \E order \in Orders(applied) :
              /\ final' = ApplyUpdates(final, t, order)
              /\ pass' = [NoPass EXCEPT !.kind = "join", !.table = t,
                                        !.scanned = s.items,
                                        !.scanOk = s.scanOk,
                                        !.tried = applied,
                                        !.readOk = s.readOk,
                                        !.abandoned = TRUE]
  /\ pc' = "Aborted"
  /\ run' = Disturbed
  /\ UNCHANGED <<clock, index, nvd, src, meta, cur,
                 normVars, hashVars, baseVars, helperVars>>

NextPass ==
  \/ left_join_source_from_cveindex
  \/ ProcessExit
  \/ Normalize

SpecPass == InitPass /\ [][NextPass]_vars

\* ------------------------------------------------------------------------
\* Properties
\* ------------------------------------------------------------------------
\* The step is a pass of left_join_source_from_cveindex.
JoinStep == pc = "Join" /\ pass'.kind = "join"

\* The step is a pass of load_nvd_base.
NvdStep == pc = "LoadBase" /\ pass'.kind = "nvd"

\* Attributes of the final table that hold text (or NULL).
TextAttrs == Attrs \ {"cve_id", "uploaded_date"}

\* The stored watermark of table t as a successful read returns it.
Watermark(t) == get_last_sync(t, TRUE)

\* C1: a run of run_pipeline that directly follows another run, with no
\* source table changed and no store call failed since the earlier run
\* started, has issued no write to the final table when it is done.
C1_SecondRunWritesNothing ==
  (pc = "Done" /\ run.calm = 2) => ~run.wrote

\* C2: a source join never creates an entity: the key set of the final table
\* after a pass of left_join_source_from_cveindex is a subset of its key set
\* before the pass.
C2_JoinCreatesNoEntity ==
  [][JoinStep => (DOMAIN final' \subseteq DOMAIN final)]_vars

\* The update requests of a CISA record k1 and an APT record k2 for an entity.
BothOrders(k1, k2) ==
  LET e == Norm[k1]
      r1 == UpdateRequest(CISA_TABLE, k1)
      r2 == UpdateRequest(APT_TABLE, k2)
  IN [first |-> UpdateItem(UpdateItem(final, e, r1), e, r2)[e],
      second |-> UpdateItem(UpdateItem(final, e, r2), e, r1)[e],
      r1 |-> r1, r2 |-> r2]

\* Records of the two sources that join the same existing entity.
SameEntity(k1, k2) ==
  /\ k1 \in DOMAIN src[CISA_TABLE]
  /\ k2 \in DOMAIN src[APT_TABLE]
  /\ Norm[k1] = Norm[k2]
  /\ Norm[k1] \in DOMAIN final
  /\ UpdateRequest(CISA_TABLE, k1) # EmptyDict
  /\ UpdateRequest(APT_TABLE, k2) # EmptyDict

\* C3: for an entity of the final table and records of two different sources
\* that join it, applying the first source's update and then the second's
\* gives the entity the fields of both, and applying them in the opposite
\* order gives the same entity.
C3_JoinsOfDifferentSourcesCommute ==
  \A k1 \in SourceKeys(CISA_TABLE), k2 \in SourceKeys(APT_TABLE) :
    SameEntity(k1, k2) =>
      LET b == BothOrders(k1, k2)
      IN /\ b.first = b.second
         /\ \A a \in DOMAIN b.r1 : b.first[a] = b.r1[a]
         /\ \A a \in DOMAIN b.r2 : b.first[a] = b.r2[a]

\* C3 witness: an entity that the joins of both sources have updated, each
\* with a value, while NVD data is present too.
C3_Witness ==
  /\ pass.kind = "join"
  /\ SameEntity(K1, K1Alt)
  /\ final[K1]["product"] = "a"
  /\ final[K1]["apt_group"] = "g"
  /\ final[K1]["weakness"] = "w"

\* C4: a join update never writes a null placeholder: no pass of the join
\* stores NULL in an attribute, and an attribute that holds a value keeps it
\* unless the pass supplies a value for it.
C4_JoinWritesNoNull ==
  [][JoinStep =>
       \A k \in DOMAIN final' : \A a \in TextAttrs :
         final'[k][a] = NULL => (k \in DOMAIN final /\ final[k][a] = NULL)
    ]_vars

\* C5: a write of load_nvd_base to an entity that exists keeps the attributes
\* the write does not supply: the fields merged in by the sources are still
\* there afterwards.
C5_BaseLoadKeepsSourceFields ==
  [][NvdStep =>
       \A k \in DOMAIN final :
         /\ k \in DOMAIN final'
         /\ \A a \in {"product", "apt_group"} : final'[k][a] = final[k][a]
    ]_vars

\* C6: no update request of a source join names the identifier attribute, and
\* the cve_id attribute of an entity never changes (nor is the entity removed)
\* once the entity exists.
C6_IdentifierNeverRewritten ==
  [][/\ \A t \in SourceTables : \A k \in DOMAIN src[t] :
          "cve_id" \notin DOMAIN UpdateRequest(t, k)
     /\ \A k \in DOMAIN final :
          k \in DOMAIN final' /\ final'[k]["cve_id"] = final[k]["cve_id"]
    ]_vars

\* C6 witness: a join pass has applied the update of a record whose transform
\* output carries cve_id in a spelling other than the entity's key.
C6_Witness ==
  /\ pass.kind = "join"
  /\ pass.table = APT_TABLE
  /\ K1Alt \in pass.tried \ pass.updFailed
  /\ Transform(APT_TABLE, K1Alt, src[APT_TABLE][K1Alt])["cve_id"] = K1Alt
  /\ final[K1]["cve_id"] = K1
  /\ final[K1]["apt_group"] = "g"

\* The entity of source record k of table t holds every field of the record's
\* update request.
HasFields(t, k) ==
  /\ Norm[k] \in DOMAIN final
  /\ \A a \in DOMAIN UpdateRequest(t, k) : final[Norm[k]][a] # ABSENT

\* The latest uploaded_date among the records ks of table t.
LatestMarker(t, ks) ==
  CHOOSE m \in {src[t][k].uploaded_date : k \in ks} :
    \A k \in ks : src[t][k].uploaded_date <= m

\* A pass of the join over a dynamic source has just returned and its scan
\* returned records.
DynamicPassDone ==
  /\ pass.kind = "join"
  /\ ~pass.raised
  /\ ~IsStatic(pass.table)
  /\ pass.scanned # {}

C8_WatermarkNeverDecreases ==
  [][\A t \in DOMAIN meta : t \in DOMAIN meta' /\ meta'[t] >= meta[t]]_vars

\* C9: a source record whose update failed in a pass is not lost: after the
\* pass it is still inside the window of the source's next scan (static
\* sources are scanned in full), so that a later pass applies it without the
\* record being modified again.
C9_FailedUpdateStaysInWindow ==
  pass.kind = "join" =>
    \A k \in pass.updFailed :
      \/ IsStatic(pass.table)
      \/ src[pass.table][k].uploaded_date > Watermark(pass.table)

\* C10: in a pass over a dynamic source, when the scan succeeded (and the
\* store accepts the watermark write) the watermark advances to the maximum
\* marker of the pass whatever number of record updates failed, and the
\* watermark is written only if the scan succeeded.
C10_WatermarkFollowsScanOnly ==
  [][(JoinStep /\ ~IsStatic(pass'.table)) =>
       /\ (pass'.scanOk /\ pass'.scanned # {} /\ ~pass'.raised) =>
            /\ pass'.table \in DOMAIN meta'
            /\ meta'[pass'.table] = LatestMarker(pass'.table, pass'.scanned)
       /\ meta' # meta => pass'.scanOk
    ]_vars

\* C11: when a segment of a source's scan ends in failure, the pass of that
\* source is aborted: it writes nothing to the final table and does not write
\* the source's watermark.
C11_FailedScanAbortsPass ==
  [][(JoinStep /\ ~pass'.scanOk) => (final' = final /\ meta' = meta)]_vars

\* C12: the value parallel_scan returns tells its caller whether segment
\* workers failed: for a table that holds records, no scan with a failed
\* worker returns the same items as a scan whose workers all completed.
C12_ScanFailureVisible ==
  \A t \in SourceTables :
    DOMAIN src[t] # {} =>
      \A o1, o2 \in ScanOutcomes(DOMAIN src[t]) :
        o1.items = o2.items => o1.ok = o2.ok

\* C16: normalize_cve is idempotent: applying it to its own result gives that
\* result again, for every input, an absent result included.
C16_NormalizeIdempotent ==
  twice # Unset => twice = once

\* A text in another spelling than the canonical one has been normalized
\* twice.
C16_Witness ==
  /\ twice # Unset
  /\ once # None
  /\ arg # once

\* The texts PREFIX[-_ ]?YEAR[-_ ]?SEQUENCE with a year of four digits and a
\* sequence of one to seven digits, each with the identifier it stands for.
PatternTexts ==
  {[text |-> Compose(pad, << >>, prefix, sep1, year, sep2, num, << >>),
    id |-> <<"C","V","E","-">> \o year \o <<"-">> \o ZFill(num, 4)] :
     pad \in Pads, prefix \in Prefixes,
     sep1 \in {x \in Seps : Len(x) = 0 \/ IsSep(x[1])},
     year \in {y \in Years : Len(y) = 4},
     sep2 \in {x \in Seps : Len(x) = 0 \/ IsSep(x[1])},
     num \in {n \in Seqs : Len(n) <= 7}}

\* C17: every text PREFIX[-_ ]?YEAR[-_ ]?SEQUENCE normalizes to
\* PREFIX-YEAR-SEQUENCE with the sequence left-padded to 4 digits, sequences
\* shorter than 4 digits included ("CVE-2021-1" gives "CVE-2021-0001").
C17_ShortSequencePadded ==
  once # Unset =>
    \A pt \in PatternTexts : arg = pt.text => once = pt.id

\* C18: normalize_cve returns the absent value, and does not raise, for None,
\* the empty string, a value that is not a string and text without an
\* identifier; the join skips a record whose key normalizes to absent: it
\* does not reach update_item and nothing is written under an absent key.
C18_AbsentKeySkipped ==
  /\ once # Unset => once = None
  /\ pass.kind = "join" =>
       /\ \A k \in pass.scanned : Norm[k] = "" => k \notin pass.tried
       /\ \A id \in DOMAIN final : id # ""

\* A non-string has been normalized and a pass has scanned a record with an
\* unusable key next to records that it joined.
C18_Witness ==
  /\ arg = NotStr
  /\ once = None
  /\ pass.kind = "join"
  /\ BadId \in pass.scanned
  /\ pass.tried # {}
  /\ pass.skipped > 0

\* C19: a record whose processing fails (update_item raises) is counted by
\* the pass and does not keep the other records from being processed: the
\* counters of a pass that returned account for every scanned record, and
\* every record that reached update_item without failing is in the final
\* table.
C19_RecordFailureCounted ==
  (pass.kind = "join" /\ ~pass.raised) =>
    /\ pass.updated + pass.skipped = Cardinality(pass.scanned)
    /\ \A k \in pass.tried \ pass.updFailed : Norm[k] \in DOMAIN final

\* C20: a source pass that fails does not stop the pipeline: after every
\* pass of left_join_source_from_cveindex, run_pipeline is at the next entry
\* of SOURCE_SPECS or at its end.
C20_FailedPassDoesNotStopRun ==
  [][JoinStep => pc' \in {"Join", "Done"}]_vars

\* The content of a record that its feed's hash is meant to cover: its
\* fields outside the excluded ones, whatever their order.
Included(kind, rec) ==
  [f \in Fields(rec) \ Excluded(kind) |-> Get(rec, f, None)]

\* C14: two records that differ only in the order of their fields or in an
\* excluded volatile field have the same content hash, and two records that
\* differ in the value of an included field have different content hashes.
C14_HashFollowsIncludedFields ==
  hashes # << >> =>
    (hashes[1] = hashes[2]) <=>
      (Included(loader, recs[1]) = Included(loader, recs[2]))

\* The step is a pass of a feed loader.
SyncStep == bpass.kind = "none" /\ bpass'.kind = "sync"

\* The keys of the baseline object in S3.
BaselineKeys == IF s3base.exists THEN DOMAIN s3base.recs ELSE {}

\* C13: the key set of the persisted baseline never shrinks: every key of
\* the baseline before a pass of a feed loader is in the baseline after it,
\* whatever the outcome of loading the previous baseline.
C13_BaselineNeverShrinks ==
  [][SyncStep => BaselineKeys \subseteq BaselineKeys']_vars

\* The entries that the loader's previous baseline holds for key k: of the
\* baseline object for CISA, of the scanned table for Metasploit.
BaselineEntries(k) ==
  IF loader = "cisa"
  THEN IF s3base.exists /\ k \in DOMAIN s3base.recs THEN {s3base.recs[k]}
       ELSE {}
  ELSE {btable[i] : i \in {j \in DOMAIN btable : btable[j].module_key = k}}

\* The content of record rec of the extract without its upload date, and
\* the same fields of a baseline entry.
CanonicalContent(rec, entry) ==
  [f \in Fields(rec) \ {"uploaded_date", "date_updated"} |->
     IF f \in DOMAIN entry THEN entry[f] ELSE None]

\* C15: in a pass of a feed loader that got as far as comparing, a key is in
\* the to-write set exactly when the baseline has no entry for it or its
\* content, field order and upload date aside, differs from the baseline's.
C15_ChangedSetExact ==
  [][(SyncStep /\ bpass'.loaded) =>
       \A k \in DOMAIN feed :
         (k \in bpass'.changed) <=>
           ~ \E e \in BaselineEntries(k) :
               CanonicalContent(feed[k], e)
                 = CanonicalContent(feed[k], AsMap(feed[k]))]_vars

\* The records of the pass's table that an incremental scan reading the
\* stored watermark matches.
NextWindow(t) == Matching(t, IsStatic(t), Watermark(t))

\* C21: when a pass is abandoned before its watermark write, the stored
\* watermark of its source is unchanged and the next run's scan matches
\* every record the abandoned pass had scanned.
C21_AbandonedPassIsRepeated ==
  [][(pc = "Join" /\ pass'.abandoned) =>
       /\ meta' = meta
       /\ pass'.scanned \subseteq NextWindow(pass'.table)]_vars

\* C22: when the watermark of a dynamic source cannot be read at the start of
\* its pass, the pass fails as a whole and writes no watermark.
C22_UnreadableWatermarkFailsPass ==
  [][(JoinStep /\ ~IsStatic(pass'.table) /\ ~pass'.readOk) =>
       (pass'.raised /\ meta' = meta)]_vars

\* ------------------------------------------------------------------------
\* get_last_sync and set_last_sync against the metadata table
\* ------------------------------------------------------------------------

\* What a call of the metadata table can do: return, raise
\* botocore.exceptions.ClientError (an error response of the service), or
\* raise another exception (no response at all: the endpoint cannot be
\* reached, the read times out, no credentials), which is not a ClientError.
StoreReplies == {"ok", "ClientError", "other"}

MetaTables == SourceTables \cup {NVD_TABLE}

InitMeta ==
  /\ PipeInit
  /\ NormIdle
  /\ HashIdle
  /\ BaseIdle
  /\ sync = [op |-> "none", table |-> NVD_TABLE, ts |-> EPOCH,
             reply |-> "ok", raised |-> FALSE, value |-> EPOCH]
  /\ batch = << >>
  /\ found = << >>
  /\ seg = << >>
  /\ pool = << >>
  /\ scan = << >>
  /\ lookup = << >>
  /\ late = << >>

\* get_last_sync(table_name): get_item inside try / except ClientError.
GetLastSync ==
  /\ \E t \in MetaTables, reply \in StoreReplies :
       sync' = [op |-> "get", table |-> t, ts |-> EPOCH, reply |-> reply,
                raised |-> (reply = "other"),
                value |-> get_last_sync(t, reply = "ok")]
  /\ UNCHANGED <<pipeVars, normVars, hashVars, baseVars,
                 batch, found, seg, pool, scan, lookup, late>>

\* set_last_sync(table_name, ts): put_item with no try around it.
SetLastSync ==
  /\ \E t \in MetaTables, ts \in Times, reply \in StoreReplies :
       /\ meta' = IF reply = "ok" THEN set_last_sync(t, ts) ELSE meta
       /\ sync' = [op |-> "set", table |-> t, ts |-> ts, reply |-> reply,
                   raised |-> (reply # "ok"), value |-> EPOCH]
  /\ UNCHANGED <<clock, index, nvd, src, final, pc, cur, pass, run,
                 normVars, hashVars, baseVars, batch, found, seg, pool, scan, lookup, late>>

NextMeta ==
  \/ GetLastSync
  \/ SetLastSync

SpecMeta == InitMeta /\ [][NextMeta]_vars

\* set_last_sync with the table and time of the call before it, both stored.
SameSetAgain ==
  /\ sync.op = "set" /\ sync.reply = "ok"
  /\ sync'.op = "set" /\ sync'.reply = "ok"
  /\ sync'.table = sync.table
  /\ sync'.ts = sync.ts

\* C23: get_last_sync returns the epoch when the source has no watermark
\* item and never raises, whatever the metadata table does; set_last_sync
\* with the same time a second time leaves the stored state as it was.
C23_GetNeverFailsSetIdempotent ==
  [][/\ (sync'.op = "get" /\ sync' # sync) =>
          /\ ~sync'.raised
          /\ (sync'.table \notin DOMAIN meta => sync'.value = EPOCH)
     /\ SameSetAgain => meta' = meta]_vars

\* ------------------------------------------------------------------------
\* The batch-get helpers: fetch_chunk, _batch_get, fetch_batch
\* ------------------------------------------------------------------------

\* load_missing_from_cveindex.py fetch_chunk: the bound of its while loop.
max_attempts == 5

\* The keys of one call (at most 100 in the code).
BatchKeys == {K1, K2}

BatchHelpers == {"fetch_chunk", "_batch_get", "fetch_batch"}

\* What one batch_get_item call can do with the keys asked for: raise, or
\* answer for some of them and hand the others back as UnprocessedKeys.
BatchReplies(asked) ==
  {[err |-> TRUE, served |-> {}]} \cup
  {[err |-> FALSE, served |-> P] : P \in SUBSET asked}

InitBatch ==
  /\ PipeInit
  /\ NormIdle
  /\ HashIdle
  /\ BaseIdle
  /\ sync = << >>
  /\ \E h \in BatchHelpers, e \in SUBSET BatchKeys :
       batch = [helper |-> h, exists |-> e, pending |-> BatchKeys,
                collected |-> {}, attempt |-> 0, state |-> "running"]
  /\ found = << >>
  /\ seg = << >>
  /\ pool = << >>
  /\ scan = << >>
  /\ lookup = << >>
  /\ late = << >>

BatchUnchanged ==
  UNCHANGED <<pipeVars, normVars, hashVars, baseVars, sync, found, seg, pool, scan, lookup, late>>

\* One turn of the while loop of fetch_chunk: an exception of the call uses
\* up an attempt; the loop ends when nothing is unprocessed or when
\* max_attempts calls have been made, and collected is returned either way.
fetch_chunk ==
  /\ batch.helper = "fetch_chunk"
  /\ batch.state = "running"
  /\ batch.attempt < max_attempts
  /\ \E r \in BatchReplies(batch.pending) :
       LET attempt == batch.attempt + 1
           unprocessed == batch.pending \ r.served
           over == attempt >= max_attempts
       IN batch' =
            IF r.err
              THEN [batch EXCEPT !.attempt = attempt,
                                 !.state = IF over THEN "returned"
                                                   ELSE "running"]
              ELSE [batch EXCEPT
                      !.attempt = attempt,
                      !.collected = @ \cup (r.served \cap batch.exists),
                      !.pending = unprocessed,
                      !.state = IF unprocessed = {} \/ over
                                  THEN "returned" ELSE "running"]
  /\ BatchUnchanged

\* vuln_output _batch_get: one call, then one more call for the unprocessed
\* keys; no try around either.
batch_get ==
  /\ batch.helper = "_batch_get"
  /\ batch.state = "running"
  /\ \E r1 \in BatchReplies(batch.pending) :
       LET unproc == batch.pending \ r1.served
       IN IF r1.err
            THEN batch' = [batch EXCEPT !.attempt = 1, !.state = "raised"]
            ELSE IF unproc = {}
              THEN batch' = [batch EXCEPT
                               !.attempt = 1,
                               !.collected = r1.served \cap batch.exists,
                               !.pending = {},
                               !.state = "returned"]
              ELSE \E r2 \in BatchReplies(unproc) :
                     batch' =
                       IF r2.err
                         THEN [batch EXCEPT !.attempt = 2,
                                            !.pending = unproc,
                                            !.state = "raised"]
                         ELSE [batch EXCEPT
                                 !.attempt = 2,
                                 !.collected = (r1.served \cup r2.served)
                                                 \cap batch.exists,
                                 !.pending = unproc \ r2.served,
                                 !.state = "returned"]
  /\ BatchUnchanged

\* Fast_API fetch_batch: one call; a ClientError is printed and the empty
\* list returned; UnprocessedKeys is not read.
fetch_batch ==
  /\ batch.helper = "fetch_batch"
  /\ batch.state = "running"
  /\ \E r \in BatchReplies(batch.pending) :
       batch' = [batch EXCEPT
                   !.attempt = 1,
                   !.collected = r.served \cap batch.exists,
                   !.pending = batch.pending \ r.served,
                   !.state = "returned"]
  /\ BatchUnchanged

NextBatch ==
  \/ fetch_chunk
  \/ batch_get
  \/ fetch_batch

SpecBatch == InitBatch /\ [][NextBatch]_vars

\* C24: when a batch-get helper has ended, it has returned the item of every
\* requested key that exists in the table.
C24_BatchGetReturnsEveryItem ==
  batch.state # "running" => batch.exists \subseteq batch.collected

\* ------------------------------------------------------------------------
\* extract_cves applied to a text
\* ------------------------------------------------------------------------

\* The longest text, in pieces.
MaxPieces == 3

\* The pieces the texts are made of, each with the identifier it spells
\* (None: it spells none): two spellings of one identifier, a second and a
\* third identifier, other text, and a prefix with a two-digit year.
Pieces ==
  {[text |-> Chars[K1], id |-> Chars[K1]],
   [text |-> Chars[K1Alt], id |-> Chars[K1]],
   [text |-> Chars[K2Alt], id |-> Chars[K2]],
   [text |-> <<"C","V","E","2","0","2","1","1","2","3","4","5","6","7">>,
    id |-> <<"C","V","E","-","2","0","2","1","-",
             "1","2","3","4","5","6","7">>],
   [text |-> <<"x"," ">>, id |-> None],
   [text |-> Chars[BadId], id |-> None]}

PieceSeqs == UNION {[1..n -> Pieces] : n \in 0..MaxPieces}

RECURSIVE Concat(_)
Concat(ps) == IF ps = << >> THEN << >> ELSE Head(ps).text \o Concat(Tail(ps))

InitExtract ==
  /\ PipeInit
  /\ NormIdle
  /\ HashIdle
  /\ BaseIdle
  /\ sync = << >>
  /\ batch = << >>
  /\ \/ \E ps \in PieceSeqs :
          found = [pieces |-> ps, value |-> Concat(ps), out |-> Unset]
     \/ found = [pieces |-> << >>, value |-> NotStr, out |-> Unset]
  /\ seg = << >>
  /\ pool = << >>
  /\ scan = << >>
  /\ lookup = << >>
  /\ late = << >>

\* cves = extract_cves(value)
Extract_cves ==
  /\ found.out = Unset
  /\ found' = [found EXCEPT !.out = extract_cves(found.value)]
  /\ UNCHANGED <<pipeVars, normVars, hashVars, baseVars,
                 sync, batch, seg, pool, scan, lookup, late>>

NextExtract == Extract_cves

SpecExtract == InitExtract /\ [][NextExtract]_vars

\* The identifiers spelled in the text.
SpelledIds == {found.pieces[k].id : k \in DOMAIN found.pieces} \ {None}

\* The piece of the text that spells id first.
FirstAt(id) ==
  CHOOSE k \in DOMAIN found.pieces :
    /\ found.pieces[k].id = id
    /\ \A j \in DOMAIN found.pieces : found.pieces[j].id = id => k <= j

max_retries == 3

\* The most pages a segment has.
MaxPages == 3

\* Page k of the segment holds the one matching item k.
PageItems(k) == <<k>>

InitSegment ==
  /\ PipeInit
  /\ NormIdle
  /\ HashIdle
  /\ BaseIdle
  /\ sync = << >>
  /\ batch = << >>
  /\ found = << >>
  /\ \E n \in 1..MaxPages :
       seg = [pages |-> n, at |-> 1, items |-> << >>, retries |-> 0,
              throttledAt |-> {}, slept |-> << >>, errored |-> FALSE,
              state |-> "paging"]
  /\ pool = << >>
  /\ scan = << >>
  /\ lookup = << >>
  /\ late = << >>

SegmentUnchanged ==
  UNCHANGED <<pipeVars, normVars, hashVars, baseVars,
              sync, batch, found, pool, scan, lookup, late>>

\* for page in paginator.paginate(**params): items.extend(page["Items"]);
\* after the last page the for loop ends and "break" leaves the retry loop.
ReadPage ==
  /\ seg.state = "paging"
  /\ seg' = [seg EXCEPT
               !.items = @ \o PageItems(seg.at),
               !.at = @ + 1,
               !.state = IF seg.at = seg.pages THEN "complete" ELSE "paging"]
  /\ SegmentUnchanged

\* The request for the next page is throttled: retries += 1; beyond
\* max_retries the segment gives up, otherwise it sleeps backoff ** retries
\* (slept records the exponent) and the while loop calls
\* paginator.paginate(**params) again, with the same params and with items
\* as it stands.
Throttled ==
  /\ seg.state = "paging"
  /\ seg' = [seg EXCEPT
               !.retries = @ + 1,
               !.throttledAt = @ \cup {seg.at},
               !.slept = IF seg.retries + 1 > max_retries THEN @
                         ELSE Append(@, seg.retries + 1),
               !.at = IF seg.retries + 1 > max_retries THEN @ ELSE 1,
               !.state = IF seg.retries + 1 > max_retries THEN "gave up"
                                                          ELSE "paging"]
  /\ SegmentUnchanged

\* A worker that goes round the while loop again after an error that is not
\* a throttle.
AfterError_again == "paging"

\* Where the worker is after an error that is not a throttle: both except
\* branches end in "break".
AfterError == "gave up"

\* Another ClientError or exception: logged, "break".
ScanError ==
  /\ seg.state = "paging"
  /\ seg' = [seg EXCEPT !.errored = TRUE, !.state = AfterError]
  /\ SegmentUnchanged

NextSegment ==
  \/ ReadPage
  \/ Throttled
  \/ ScanError

SpecSegment == InitSegment /\ [][NextSegment]_vars

\* The worker thread keeps running: every request to the store is answered,
\* with a page or with an error.
SpecSegmentLive == SpecSegment /\ WF_vars(NextSegment)

\* How many times item k is in the list of the segment.
Copies(k) == Cardinality({i \in DOMAIN seg.items : seg.items[i] = k})

\* C26: a segment that was throttled after its first page and then read all
\* its pages within the retry bound returns each matching item exactly once.
C26_ThrottledSegmentExactlyOnce ==
  (seg.state = "complete" /\ \E p \in seg.throttledAt : p > 1) =>
    \A k \in 1..seg.pages : Copies(k) = 1

\* ------------------------------------------------------------------------
\* The thread pool of a join pass, one process() call at a time
\* ------------------------------------------------------------------------

\* ThreadPoolExecutor(max_workers=16)
max_workers == 16

\* The most records a scan of the pool model returns.
MaxRecs == 2

\* What a process(rec) call comes to: the record is skipped, update_item
\* succeeds, or update_item raises.
Outcomes == {"skip", "update", "fail"}

Queued == [pc |-> "queued", kind |-> "none", reg |-> 0]

InitPool ==
  /\ PipeInit
  /\ NormIdle
  /\ HashIdle
  /\ BaseIdle
  /\ sync = << >>
  /\ batch = << >>
  /\ found = << >>
  /\ seg = << >>
  /\ pool = [source |-> 1, phase |-> "scan", tasks |-> << >>,
             updated |-> 0, skipped |-> 0,
             scans |-> {}, joined |-> {}, written |-> {},
             reported |-> [updated |-> 0, skipped |-> 0]]
  /\ scan = << >>
  /\ lookup = << >>
  /\ late = << >>

PoolUnchanged ==
  UNCHANGED <<pipeVars, normVars, hashVars, baseVars,
              sync, batch, found, seg, scan, lookup, late>>

\* Steps 1 and 2 of the pass of the current source: the scan returns its
\* items; "updated, skipped = 0, 0".
PoolScan ==
  /\ pool.phase = "scan"
  /\ \E n \in 0..MaxRecs :
       pool' = [pool EXCEPT !.phase = "join",
                            !.tasks = [r \in 1..n |-> Queued],
                            !.updated = 0,
                            !.skipped = 0,
                            !.scans = @ \cup {pool.source}]
  /\ PoolUnchanged

Running == {r \in DOMAIN pool.tasks : pool.tasks[r].pc = "loaded"}

\* A worker takes process(rec) up to the read of the counter it is about to
\* add to: "skipped += 1" reads skipped, "updated += 1" (after update_item
\* has returned) reads updated; when update_item raises the call ends with
\* the error logged and no counter read.
ProcessStart ==
  /\ pool.phase = "join"
  /\ Cardinality(Running) < max_workers
  /\ \E r \in DOMAIN pool.tasks, kind \in Outcomes :
       /\ pool.tasks[r].pc = "queued"
       /\ pool' = [pool EXCEPT
                     !.tasks[r] =
                       [pc |-> IF kind = "fail" THEN "done" ELSE "loaded",
                        kind |-> kind,
                        reg |-> CASE kind = "skip" -> pool.skipped
                                  [] kind = "update" -> pool.updated
                                  [] OTHER -> 0]]
  /\ PoolUnchanged

\* The worker stores the value it read plus one (no lock is held between
\* the read and the store).
ProcessCount ==
  /\ pool.phase = "join"
  /\ \E r \in DOMAIN pool.tasks :
       /\ pool.tasks[r].pc = "loaded"
       /\ pool' = [pool EXCEPT
                     !.tasks[r].pc = "done",
                     !.updated = IF pool.tasks[r].kind = "update"
                                   THEN pool.tasks[r].reg + 1 ELSE @,
                     !.skipped = IF pool.tasks[r].kind = "skip"
                                   THEN pool.tasks[r].reg + 1 ELSE @]
  /\ PoolUnchanged

\* Leaving the with block without waiting for the workers.
PoolJoined_no_wait == TRUE

\* "with ThreadPoolExecutor(...) as ex: list(ex.map(process, items))" is left
\* when every process() call has ended.
PoolJoined == \A r \in DOMAIN pool.tasks : pool.tasks[r].pc = "done"

\* After the pool: the log line with the counters, Step 4 (the watermark of
\* a dynamic source with items), return; run_pipeline goes on to the next
\* source.
PoolFinish ==
  /\ pool.phase = "join"
  /\ PoolJoined
  /\ LET spec == SOURCE_SPECS[pool.source]
         last == pool.source = Len(SOURCE_SPECS)
     IN pool' = [pool EXCEPT
                   !.reported = [updated |-> pool.updated,
                                 skipped |-> pool.skipped],
                   !.joined = @ \cup {pool.source},
                   !.written = IF ~spec.is_static /\ pool.tasks # << >>
                                 THEN @ \cup {pool.source} ELSE @,
                   !.phase = IF last THEN "done" ELSE "scan",
                   !.source = IF last THEN @ ELSE @ + 1]
  /\ PoolUnchanged

NextPool ==
  \/ PoolScan
  \/ ProcessStart
  \/ ProcessCount
  \/ PoolFinish

SpecPool == InitPool /\ [][NextPool]_vars

\* All process() calls of the pass under way have ended.
AllDone == \A r \in DOMAIN pool.tasks : pool.tasks[r].pc = "done"

\* C27: the watermark of a source is written only after the scan of its pass
\* and after every process() call of the pass has ended, and the scan of the
\* next source starts only after the pass before it has ended, its watermark
\* write included.
C27_ScanJoinsWatermarkInOrder ==
  [][/\ pool'.written # pool.written =>
          /\ pool.source \in pool.scans
          /\ AllDone
          /\ pool'.written = pool.written \cup {pool.source}
     /\ pool'.scans # pool.scans =>
          /\ AllDone
          /\ \A m \in 1..(pool.source - 1) : m \in pool.joined
          /\ pool.written \subseteq pool'.written]_vars

\* The pass of the dynamic source has joined two records and written its
\* watermark, and the scan of the next source has not started.
C27_Witness ==
  /\ pool # << >>
  /\ 1 \in pool.written
  /\ Len(pool.tasks) = 2
  /\ pool.source = 2
  /\ pool.phase = "scan"

\* The process() calls of the pass that came to the given outcome.
Ended(kind) ==
  Cardinality({r \in DOMAIN pool.tasks : pool.tasks[r].kind = kind})

\* C30: when the workers of a pass have ended, the counters it reports
\* account for every scanned record once: updated + skipped + failed is the
\* number of scanned records, failed being the update_item calls that raised.
C30_CountersAccountForEveryRecord ==
  [][pool'.joined # pool.joined =>
       pool'.reported.updated + pool'.reported.skipped + Ended("fail")
         = Len(pool.tasks)]_vars

\* The table of the loader, after the step, holds the version e of the record
\* with key k: for CISA the item with that cveID made of e's values, for
\* Metasploit an item with that module_key and e's content hash.
Stored(k, e) ==
  IF loader = "cisa"
  THEN /\ k \in DOMAIN btable'
       /\ btable'[k] = [f \in DOMAIN e |-> to_ddb_safe(e[f])]
  ELSE \E i \in DOMAIN btable' :
         /\ btable'[i].module_key = k
         /\ btable'[i].content_hash = e.content_hash

\* The entry of key k in the baseline that the step saves differs from the
\* baseline before it: the key is new, or (CISA) the record or (Metasploit)
\* its content hash is another one.
NewVersion(k) ==
  \/ k \notin BaselineKeys
  \/ IF loader = "cisa"
       THEN s3base'.recs[k] # s3base.recs[k]
       ELSE s3base'.recs[k].content_hash # s3base.recs[k].content_hash

\* C28: in every save of the baseline, each entry that differs from the
\* baseline before the save is a version that has been put into the table of
\* the source: none whose put failed or did not happen.
C28_BaselineOnlyRecordsWritten ==
  [][(SyncStep /\ s3base' # s3base) =>
       \A k \in DOMAIN s3base'.recs :
         NewVersion(k) => Stored(k, s3base'.recs[k])]_vars

\* The latest modification marker among the records of the NVD table, which
\* the markers of the records a pass scanned cannot exceed.
LatestNvdMarker == Max({nvd[id].uploaded_date : id \in DOMAIN nvd})

\* C29: the watermark that load_nvd_base stores after writing a batch is the
\* largest uploaded_date of the NVD records it scanned, never a later time.
C29_NvdWatermarkIsLatestMarker ==
  [][(NvdStep /\ meta' # meta) =>
       meta'[NVD_TABLE] <= LatestNvdMarker]_vars

\* ------------------------------------------------------------------------
\* A pass over a source with two records for one identifier
\* ------------------------------------------------------------------------

\* The groups of the two records of the APT table (its join key
\* CVE_Exploited is not the key of the table: several records can name one
\* CVE).
TwinVals == {"g", "h"}

InitTwin ==
  /\ clock = 1
  /\ index = IndexIds
  /\ nvd = EmptyDict
  /\ \E v1, v2 \in TwinVals :
       src = [t \in SourceTables |->
                IF IsStatic(t)
                  THEN (K1 :> [uploaded_date |-> NoDate, val |-> v1]) @@
                       (K1Alt :> [uploaded_date |-> NoDate, val |-> v2])
                  ELSE (K1 :> [uploaded_date |-> clock, val |-> "a"])]
  /\ final = EmptyDict
  /\ meta \in {EmptyDict, set_last_sync_to(EmptyDict, CISA_TABLE, clock)}
  /\ pc = "Join"
  /\ cur \in DOMAIN SOURCE_SPECS
  /\ pass = NoPass
  /\ run = [calm |-> 1, wrote |-> FALSE]
  /\ arg \in AbsentInputs
  /\ once = Unset
  /\ twice = Unset
  /\ HashIdle
  /\ BaseIdle
  /\ HelperIdle

SpecTwin == InitTwin /\ [][NextPass]_vars

\* C31: the joins of the records of one source commute: the final table after
\* a pass is what every order of the pass's successful updates gives.
C31_JoinsWithinSourceCommute ==
  [][JoinStep =>
       \A o \in Orders(pass'.tried \ pass'.updFailed) :
         final' = ApplyUpdates(final, pass'.table, o)]_vars

\* ------------------------------------------------------------------------
\* parallel_scan: the workers of all segments and the collection of results
\* ------------------------------------------------------------------------

\* The matching items of segment s: item k of the segment is <<s, k>>.
SegmentItems(s) == {<<s, k>> : k \in 1..MaxPages}

InitScan ==
  /\ PipeInit
  /\ NormIdle
  /\ HashIdle
  /\ BaseIdle
  /\ sync = << >>
  /\ batch = << >>
  /\ found = << >>
  /\ seg = << >>
  /\ pool = << >>
  /\ scan = [workers |-> [s \in Segments |->
                            [state |-> "running", items |-> {}]],
             collected |-> {}, all_items |-> {}, state |-> "scanning"]
  /\ lookup = << >>
  /\ late = << >>

ScanUnchanged ==
  UNCHANGED <<pipeVars, normVars, hashVars, baseVars,
              sync, batch, found, seg, pool, lookup, late>>

\* The worker of segment s reads its next page, or ends the for loop after
\* the last one.
SegmentReads ==
  /\ scan.state = "scanning"
  /\ \E s \in Segments :
       LET w == scan.workers[s]
           n == Cardinality(w.items)
       IN /\ w.state = "running"
          /\ scan' = [scan EXCEPT !.workers[s] =
                        IF n = MaxPages
                          THEN [w EXCEPT !.state = "complete"]
                          ELSE [w EXCEPT !.items = @ \cup {<<s, n + 1>>}]]
  /\ ScanUnchanged

\* The worker of segment s stops on an error: retries used up, another
\* ClientError, or any other exception; all are caught in scan_segment.
SegmentFails ==
  /\ scan.state = "scanning"
  /\ \E s \in Segments :
       /\ scan.workers[s].state = "running"
       /\ scan' = [scan EXCEPT !.workers[s].state = "failed"]
  /\ ScanUnchanged

\* future.result() when the error of a worker is not caught in scan_segment:
\* it is raised again in the caller.
SegmentResult_uncaught(w) ==
  [raised |-> w.state = "failed", items |-> w.items]

\* future.result(): scan_segment returns items after "break", whatever ended
\* its loop.
SegmentResult(w) == [raised |-> FALSE, items |-> w.items]

\* for future in as_completed(futures): all_items.extend(future.result())
Collect ==
  /\ scan.state = "scanning"
  /\ \E s \in Segments \ scan.collected :
       LET w == scan.workers[s]
           r == SegmentResult(w)
       IN /\ w.state # "running"
          /\ scan' = IF r.raised
                       THEN [scan EXCEPT !.state = "raised",
                                         !.all_items = {}]
                       ELSE [scan EXCEPT !.collected = @ \cup {s},
                                         !.all_items = @ \cup r.items]
  /\ ScanUnchanged

\* return all_items, once every future has been collected.
ScanReturns ==
  /\ scan.state = "scanning"
  /\ scan.collected = Segments
  /\ scan' = [scan EXCEPT !.state = "returned"]
  /\ ScanUnchanged

NextScan ==
  \/ SegmentReads
  \/ SegmentFails
  \/ Collect
  \/ ScanReturns

SpecScan == InitScan /\ [][NextScan]_vars

\* C32: the failure of the worker of one segment neither ends parallel_scan
\* nor discards anything: the scan never ends with an exception, and what it
\* returns holds every item of the segments that completed (and every item
\* the failed ones had read).
C32_FailedSegmentKeepsSiblings ==
  /\ scan.state # "raised"
  /\ scan.state = "returned" =>
       \A s \in Segments :
         /\ scan.workers[s].items \subseteq scan.all_items
         /\ scan.workers[s].state = "complete" =>
              SegmentItems(s) \subseteq scan.all_items

\* A scan has returned in which the worker of segment 0 failed before its
\* first page and the worker of segment 1 completed.
C32_Witness ==
  /\ scan.state = "returned"
  /\ scan.workers[0].state = "failed"
  /\ scan.workers[0].items = {}
  /\ scan.workers[1].state = "complete"
  /\ SegmentItems(1) \subseteq scan.all_items

\* C33: the worker of a scan segment terminates whatever the store answers:
\* it starts again only after a throttle, at most max_retries times, having
\* slept backoff ** retries before each new start, and it stops at the first
\* error that is not a throttle.
C33_SegmentWorkerTerminates ==
  /\ [](/\ Len(seg.slept) <= max_retries
        /\ Len(seg.slept) <= Cardinality(seg.throttledAt) * max_retries
        /\ seg.throttledAt = {} => seg.slept = << >>
        /\ \A i \in DOMAIN seg.slept : seg.slept[i] = i
        /\ seg.errored => seg.state = "gave up")
  /\ <>(seg.state \in {"complete", "gave up"})

\* A worker has completed its segment after max_retries throttles.
C33_Witness ==
  /\ seg.state = "complete"
  /\ Len(seg.slept) = max_retries

\* C34: a pass whose scan of the source returns no items writes nothing to
\* the final table, writes nothing to the metadata table and returns without
\* an exception.
C34_EmptyScanWritesNothing ==
  [][(JoinStep /\ pass'.scanned = {}) =>
       /\ final' = final
       /\ meta' = meta
       /\ ~pass'.raised]_vars

\* A pass over a dynamic source holding records has returned with an empty
\* scan.
C34_Witness ==
  /\ pass.kind = "join"
  /\ pass.scanned = {}
  /\ pass.scanOk
  /\ ~IsStatic(pass.table)
  /\ src[pass.table] # EmptyDict
  /\ ~pass.raised

\* ------------------------------------------------------------------------
\* The dynamic source between passes: records written after a pass, base
\* items added after a pass
\* ------------------------------------------------------------------------
\* The identifiers the CVE index can come to hold.
LateIds == {K1Alt, K2Alt}

\* written: the records put into the CISA table since the last pass over it
\* that returned (empty before the first one has); skipped: the records that
\* a pass skipped because the CVE set did not hold their identifier, and
\* that were not written again since; completed: a pass over the table has
\* returned; clean: in the pass that has just ended the read of the
\* watermark, both scans and every update_item succeeded.
InitLate ==
  /\ PipeInit
  /\ NormIdle
  /\ HashIdle
  /\ BaseIdle
  /\ sync = << >>
  /\ batch = << >>
  /\ found = << >>
  /\ seg = << >>
  /\ pool = << >>
  /\ scan = << >>
  /\ lookup = << >>
  /\ late = [written |-> {}, skipped |-> {}, completed |-> FALSE,
             clean |-> FALSE]

LateUnchanged == UNCHANGED <<sync, batch, found, seg, pool, scan, lookup>>

LateTick ==
  /\ ClockAdvances
  /\ UNCHANGED late
  /\ LateUnchanged

\* The CISA loader puts a record into the source table.
LateUpload ==
  /\ \E k \in SourceKeys(CISA_TABLE), v \in SourceVals(CISA_TABLE) :
       /\ UploadTo(CISA_TABLE, k, v)
       /\ late' = [late EXCEPT
                     !.written = IF late.completed THEN @ \cup {k} ELSE @,
                     !.skipped = @ \ {k},
                     !.clean = FALSE]
  /\ LateUnchanged

\* The NVD pipeline adds an item to the CVE index.
AddToIndex ==
  /\ \E id \in LateIds \ index : index' = index \cup {id}
  /\ run' = Disturbed
  /\ pass' = NoPass
  /\ late' = [late EXCEPT !.clean = FALSE]
  /\ UNCHANGED <<clock, nvd, src, final, meta, pc, cur,
                 normVars, hashVars, baseVars>>
  /\ LateUnchanged

\* The records of the scanned items that process() skips on
\* "kid not in cve_set" when the CVE set is that of the whole index.
NotInBase(items) == {k \in items : Norm[k] \notin {Norm[i] : i \in index}}

\* One pass of left_join_source_from_cveindex.
LatePass ==
  /\ pc = "Join"
  /\ LET t == SOURCE_SPECS[cur].table_name
         is_static == SOURCE_SPECS[cur].is_static
     IN \E s \in ScanCases(t, is_static) :
          \E o \in PassResults(t, is_static, s) :
            /\ PassEnds(o)
            /\ late' =
                 IF is_static THEN [late EXCEPT !.clean = FALSE]
                 ELSE [written |-> IF o.pass.raised THEN late.written ELSE {},
                       skipped |-> (late.skipped
                                      \ (o.pass.tried \ o.pass.updFailed))
                                   \cup (IF s.faulty THEN {}
                                         ELSE NotInBase(s.items)),
                       completed |-> late.completed \/ ~o.pass.raised,
                       clean |-> ~s.faulty /\ o.pass.updFailed = {}]
  /\ LateUnchanged

LateNvd ==
  /\ NvdBaseLoaded
  /\ late' = [late EXCEPT !.clean = FALSE]
  /\ LateUnchanged

LateStart ==
  /\ RunStarts
  /\ late' = [late EXCEPT !.clean = FALSE]
  /\ LateUnchanged

NextLate ==
  \/ LateTick
  \/ LateUpload
  \/ AddToIndex
  \/ LateNvd
  \/ LatePass
  \/ LateStart

SpecLate == InitLate /\ [][NextLate]_vars

\* The step is a pass over the dynamic source in which every store call
\* succeeded.
CleanPassStep ==
  /\ JoinStep
  /\ pass'.table = CISA_TABLE
  /\ late'.clean

\* C35: every record written to the dynamic source after a pass has returned
\* is among the items the scan of the next pass returns, also when its
\* uploaded_date equals the watermark that pass stored.
C35_LateRecordIsScanned ==
  [][CleanPassStep => late.written \subseteq pass'.scanned]_vars

\* C36: a record of the dynamic source that a pass skipped because the base
\* set did not hold its identifier is joined by a pass that runs after the
\* identifier was added to the base set, the record not having been written
\* again in between.
C36_SkippedRecordIsJoinedLater ==
  [][CleanPassStep =>
       \A k \in late.skipped :
         Norm[k] \in {Norm[i] : i \in index} =>
           k \in pass'.tried \ pass'.updFailed]_vars

\* The ids of the items of table tbl that carry module key mk.
ModuleIds(tbl, mk) == {n \in DOMAIN tbl : tbl[n].module_key = mk}

\* C37: over the passes of the Metasploit loader, whatever the scan of the
\* existing table returns, a module key that has an id is not given another
\* one, and an id that belongs to one module key is not given to another.
C37_ModuleKeyKeepsItsId ==
  [][loader = "metasploit" =>
       /\ \A mk \in ModuleKeys : ModuleIds(btable', mk) = ModuleIds(btable, mk)
       /\ \A n \in DOMAIN btable :
            /\ n \in DOMAIN btable'
            /\ btable'[n].module_key = btable[n].module_key]_vars

\* ------------------------------------------------------------------------
\* vuln_output/utils/cve_utils.py next to final_db/utils/cve_utils.py
\* ------------------------------------------------------------------------
\* \w on the characters of the model: letters, digits and the underscore.
IsWord(c) == IsDigit(c) \/ c \in {"_", "c", "v", "e", "C", "V", "E", "x"}

\* Is there a word character at position p of s?
WordAt(s, p) == p >= 1 /\ p <= Len(s) /\ IsWord(s[p])

\* \b between positions p - 1 and p of s.
Boundary(s, p) == WordAt(s, p - 1) # WordAt(s, p)

\* A match of CVE_REGEX, (?i)\bCVE[-_\s]?(\d{4})[-_\s]?(\d{1,7})\b, beginning
\* at i: the sequence group is the whole run of digits, since \b does not
\* hold between two digits.
RegexMatchAt(s, i) ==
  /\ Boundary(s, i)
  /\ CvePrefixAt(s, i)
  /\ DigitRun(s, YearPos(s, i)) >= 4
  /\ DigitRun(s, SeqPos(s, i)) \in 1..7
  /\ Boundary(s, SeqPos(s, i) + DigitRun(s, SeqPos(s, i)))

\* CVE_REGEX.search(cve) rewritten as CVE-<year>-<num.zfill(4)>; None when
\* there is no match.
RegexSearch(s) ==
  LET hits == {i \in 1..Len(s) : RegexMatchAt(s, i)}
  IN IF hits = {} THEN None
     ELSE
       LET i == CHOOSE j \in hits : \A h \in hits : j <= h
           year == SubSeq(s, YearPos(s, i), YearPos(s, i) + 3)
           num == SubSeq(s, SeqPos(s, i),
                         SeqPos(s, i) + DigitRun(s, SeqPos(s, i)) - 1)
       IN <<"C","V","E","-">> \o year \o <<"-">> \o ZFill(num, 4)

\* vuln_output/utils/cve_utils.py normalize_cve.
output_normalize_cve(cve) ==
  IF cve = None \/ cve = NotStr THEN None
  ELSE RegexSearch(cve)

\* One text handed to both functions.
InitLookup ==
  /\ PipeInit
  /\ NormIdle
  /\ HashIdle
  /\ BaseIdle
  /\ sync = << >>
  /\ batch = << >>
  /\ found = << >>
  /\ seg = << >>
  /\ pool = << >>
  /\ scan = << >>
  /\ late = << >>
  /\ \E t \in Inputs : lookup = [text |-> t, pipeline |-> Unset,
                                 output |-> Unset]

LookupUnchanged ==
  UNCHANGED <<pipeVars, normVars, hashVars, baseVars,
              sync, batch, found, seg, pool, scan, late>>

\* The pipeline normalizes the text into the key it writes.
PipelineNormalizes ==
  /\ lookup.pipeline = Unset
  /\ lookup' = [lookup EXCEPT !.pipeline = normalize_cve(lookup.text)]
  /\ LookupUnchanged

\* The output generator normalizes the text into the key it looks up.
OutputNormalizes ==
  /\ lookup.output = Unset
  /\ lookup' = [lookup EXCEPT !.output = output_normalize_cve(lookup.text)]
  /\ LookupUnchanged

NextLookup ==
  \/ PipelineNormalizes
  \/ OutputNormalizes

SpecLookup == InitLookup /\ [][NextLookup]_vars

\* C38: the two normalize_cve functions return the same result for every
\* text.
C38_NormalizersAgree ==
  (lookup.pipeline # Unset /\ lookup.output # Unset) =>
    lookup.pipeline = lookup.output

====
